---- MODULE Spec2Model ----
(***************************************************************************)
(* The combat state machine of the Arcane Gamemaster rules engine          *)
(* (CombatEngine) and the dice operations it consumes (DiceEngine).        *)
(*                                                                         *)
(* A Combat is a value: every operation takes the caller's Combat and      *)
(* returns a new one.  The variable combat is the value the caller holds,  *)
(* pre is the value it held before the last operation and last records     *)
(* that operation: its name, its arguments and what it returned.           *)
(* Indices are 0-based as in the source; At(s, i) reads s[i].              *)
(***************************************************************************)
EXTENDS Integers, Sequences, FiniteSets, TLC

VARIABLES
    combat,      \* the Combat value the caller holds
    pre,         \* the Combat value passed to the last operation
    last,        \* the last operation: name, arguments, results
    started,     \* the Combat value startCombat returned
    prevDowned,  \* id of the player the operation before the last one downed, or NoId
    turnCalls,   \* number of nextTurn calls so far while nothing else was called, else Broken
    actors       \* the actors that share one stored Combat: what each has taken and worked out

vars == <<combat, pre, last, started, prevDowned, turnCalls, actors>>

(***************************************************************************)
(* Bounds of the model                                                     *)
(***************************************************************************)
MaxHp == 2            \* maxHp of every character and hitPoints of every monster
MaxAmount == 2        \* amounts passed to the operations range over -MaxDebt..MaxAmount
MaxDebt == 1          \* negative healing is followed down to currentHp = -MaxDebt
MaxConditions == 2    \* condition lists are followed up to this length
MaxRound == 2         \* nextTurn ends a round only while round < MaxRound
MaxRounds == 2        \* durations are 0..MaxRounds rounds; processEndOfRound is called while round <= MaxRounds

(***************************************************************************)
(* Arithmetic and sequence helpers                                         *)
(***************************************************************************)
Max(a, b) == IF a >= b THEN a ELSE b
Min(a, b) == IF a <= b THEN a ELSE b

At(s, i) == s[i + 1]

Indices(s) == 0 .. (Len(s) - 1)

\* Array.prototype.findIndex over (x) => x.id === id: the first index, or -1.
IndexOfId(s, id) ==
    IF \E i \in Indices(s) : At(s, i).id = id
    THEN CHOOSE i \in Indices(s) :
            /\ At(s, i).id = id
            /\ \A j \in Indices(s) : j < i => At(s, j).id # id
    ELSE -1

\* Array.prototype.findIndex over (x) => x.name === name: the first index, or -1.
IndexOfName(s, name) ==
    IF \E i \in Indices(s) : At(s, i).name = name
    THEN CHOOSE i \in Indices(s) :
            /\ At(s, i).name = name
            /\ \A j \in Indices(s) : j < i => At(s, j).name # name
    ELSE -1

\* order with the element at 0-based index i replaced by c
ReplaceAt(order, i, c) == [order EXCEPT ![i + 1] = c]

(***************************************************************************)
(* Durations and conditions                                                *)
(***************************************************************************)
\* DurationType.value is optional: NoValue stands for an absent value.
NoValue == -1

\* JavaScript truthiness of an optional number: absent and 0 are falsy.
Truthy(v) == v # NoValue /\ v # 0

Rounds(n) == [type |-> "rounds", value |-> n]
UntilDispelled == [type |-> "untilDispelled", value |-> NoValue]
UntilSave(dc) == [type |-> "untilSave", value |-> dc]

Condition(name, source, duration) ==
    [name |-> name, source |-> source, duration |-> duration]

(***************************************************************************)
(* Combatants                                                              *)
(***************************************************************************)
getAbilityModifier(score) == (score - 10) \div 2

\* Mutant of createDefaultTurnResources: the reaction is not given back.
MutCreateDefaultTurnResources(speed) ==
    [hasAction |-> TRUE, hasBonusAction |-> TRUE, hasReaction |-> FALSE,
     movementRemaining |-> speed]

createDefaultTurnResources(speed) ==
    [hasAction |-> TRUE, hasBonusAction |-> TRUE, hasReaction |-> TRUE,
     movementRemaining |-> speed]

createCombatantFromCharacter(character, initiative) ==
    [id |-> character.id,
     type |-> "player_character",
     initiative |-> [roll |-> initiative.roll, modifier |-> initiative.modifier,
                     total |-> initiative.total],
     currentHp |-> character.currentHp,
     maxHp |-> character.maxHp,
     tempHp |-> character.tempHp,
     speed |-> character.speed,
     conditions |-> character.conditions,
     status |-> IF character.currentHp > 0 THEN "active" ELSE "defeated",
     turnResources |-> createDefaultTurnResources(character.speed),
     isPlayer |-> TRUE]

\* Mutant of createCombatantFromMonster: the monster is marked as a player.
MutCreateCombatantFromMonster(monster, initiative, type, instanceId) ==
    [id |-> instanceId,
     type |-> type,
     initiative |-> [roll |-> initiative.roll,
                     modifier |-> getAbilityModifier(monster.dexterity),
                     total |-> initiative.total],
     currentHp |-> monster.hitPoints,
     maxHp |-> monster.hitPoints,
     tempHp |-> 0,
     speed |-> monster.walk,
     conditions |-> <<>>,
     status |-> "active",
     turnResources |-> createDefaultTurnResources(monster.walk),
     isPlayer |-> TRUE]

\* startCombat always passes instanceId, so the uuid branch of the id is not taken.
createCombatantFromMonster(monster, initiative, type, instanceId) ==
    [id |-> instanceId,
     type |-> type,
     initiative |-> [roll |-> initiative.roll,
                     modifier |-> getAbilityModifier(monster.dexterity),
                     total |-> initiative.total],
     currentHp |-> monster.hitPoints,
     maxHp |-> monster.hitPoints,
     tempHp |-> 0,
     speed |-> monster.walk,
     conditions |-> <<>>,
     status |-> "active",
     turnResources |-> createDefaultTurnResources(monster.walk),
     isPlayer |-> FALSE]

(***************************************************************************)
(* DiceEngine.rollInitiative                                               *)
(* The d20 draws are an argument: rolls[i] is the draw for combatants[i].  *)
(***************************************************************************)
\* Mutant of InitiativeBefore: equal totals are not compared by modifier.
MutInitiativeBefore(a, b) == b.total - a.total < 0

\* The comparator of results.sort: a is placed before b.
InitiativeBefore(a, b) ==
    IF b.total # a.total THEN b.total - a.total < 0 ELSE b.modifier - a.modifier < 0

\* One step of a stable sort: x goes behind every element it is not placed before.
InsertResult(sorted, x) ==
    LET k == Cardinality({i \in 1 .. Len(sorted) : ~InitiativeBefore(x, sorted[i])})
    IN  SubSeq(sorted, 1, k) \o <<x>> \o SubSeq(sorted, k + 1, Len(sorted))

RECURSIVE SortResults(_)
SortResults(results) ==
    IF results = <<>> THEN <<>>
    ELSE InsertResult(SortResults(SubSeq(results, 1, Len(results) - 1)),
                      results[Len(results)])

rollInitiative(combatants, rolls) ==
    SortResults([i \in 1 .. Len(combatants) |->
        [combatantId |-> combatants[i].id,
         roll |-> rolls[i],
         modifier |-> combatants[i].dexterityModifier,
         total |-> rolls[i] + combatants[i].dexterityModifier]])

(***************************************************************************)
(* CombatEngine.startCombat                                                *)
(***************************************************************************)
\* `${monster.name.toLowerCase().replace(/\s+/g, '_')}_${i + 1}`; the names of the
\* model are lower-case words, which the normalisation leaves as they are.
MonsterId(prefix, monster, i) == prefix \o monster.name \o "_" \o ToString(i + 1)

startCombat(characters, monsters, allyMonsters, surprisedIds, rolls, uuid) ==
    LET initiativeCombatants ==
            [i \in 1 .. Len(characters) |->
                [id |-> characters[i].id,
                 dexterityModifier |-> getAbilityModifier(characters[i].dexterity),
                 source |-> characters[i],
                 type |-> "player_character"]]
            \o [i \in 1 .. Len(monsters) |->
                [id |-> MonsterId("", monsters[i], i - 1),
                 dexterityModifier |-> getAbilityModifier(monsters[i].dexterity),
                 source |-> monsters[i],
                 type |-> "enemy"]]
            \o [i \in 1 .. Len(allyMonsters) |->
                [id |-> MonsterId("ally_", allyMonsters[i], i - 1),
                 dexterityModifier |-> getAbilityModifier(allyMonsters[i].dexterity),
                 source |-> allyMonsters[i],
                 type |-> "ally"]]
        initiativeResults == rollInitiative(initiativeCombatants, rolls)
        Combatant(result) ==
            LET source == At(initiativeCombatants,
                             IndexOfId(initiativeCombatants, result.combatantId))
            IN  IF "characterClass" \in DOMAIN source.source
                THEN createCombatantFromCharacter(source.source, result)
                ELSE createCombatantFromMonster(source.source, result, source.type,
                                                source.id)
    IN  [id |-> uuid,
         round |-> 1,
         initiativeOrder |->
            [i \in 1 .. Len(initiativeResults) |-> Combatant(initiativeResults[i])],
         currentTurnIndex |-> 0,
         surprisedCombatantIds |-> surprisedIds,
         environmentalEffects |-> <<>>,
         isActive |-> TRUE]

\* Array.prototype.includes
Includes(s, x) == \E i \in 1 .. Len(s) : s[i] = x

getCurrentCombatant(c) ==
    IF ~c.isActive \/ Len(c.initiativeOrder) = 0
    THEN "null"
    ELSE At(c.initiativeOrder, c.currentTurnIndex)

(***************************************************************************)
(* CombatEngine.processEndOfRound and nextTurn                             *)
(***************************************************************************)
\* Mutant of DecrementCondition: the rounds left are not counted down.
MutDecrementCondition(condition) == condition

DecrementCondition(condition) ==
    IF condition.duration.type = "rounds" /\ Truthy(condition.duration.value)
    THEN [condition EXCEPT !.duration.value = condition.duration.value - 1]
    ELSE condition

KeepCondition(condition) ==
    \/ condition.duration.type # "rounds"
    \/ (Truthy(condition.duration.value) /\ condition.duration.value > 0)

\* Mutant of processEndOfRound: the round is counted twice.
MutProcessEndOfRound(c) ==
    LET Update(combatant) ==
            [combatant EXCEPT !.conditions =
                SelectSeq([i \in 1 .. Len(combatant.conditions) |->
                              DecrementCondition(combatant.conditions[i])],
                          KeepCondition)]
    IN  [c EXCEPT !.round = c.round + 2,
                  !.initiativeOrder =
                      [i \in 1 .. Len(c.initiativeOrder) |-> Update(c.initiativeOrder[i])]]

\* Mutant of processEndOfRound: every combatant gets its turn resources back as well.
MutProcessEndOfRoundResets(c) ==
    LET Update(combatant) ==
            [combatant EXCEPT !.conditions =
                SelectSeq([i \in 1 .. Len(combatant.conditions) |->
                              DecrementCondition(combatant.conditions[i])],
                          KeepCondition),
                              !.turnResources = createDefaultTurnResources(combatant.speed)]
    IN  [c EXCEPT !.round = c.round + 1,
                  !.initiativeOrder =
                      [i \in 1 .. Len(c.initiativeOrder) |-> Update(c.initiativeOrder[i])]]

processEndOfRound(c) ==
    LET Update(combatant) ==
            [combatant EXCEPT !.conditions =
                SelectSeq([i \in 1 .. Len(combatant.conditions) |->
                              DecrementCondition(combatant.conditions[i])],
                          KeepCondition)]
    IN  [c EXCEPT !.round = c.round + 1,
                  !.initiativeOrder =
                      [i \in 1 .. Len(c.initiativeOrder) |-> Update(c.initiativeOrder[i])]]

\* Mutant of FindNextActive: the loop body runs once, whatever the status found.
MutFindNextActive(c, nextIndex, iterations, newRound, updatedCombat) ==
    LET index == (nextIndex + 1) % Len(c.initiativeOrder)
        wrapped == IF index = 0 THEN processEndOfRound(updatedCombat) ELSE updatedCombat
    IN  [nextIndex |-> index, iterations |-> iterations + 1,
         newRound |-> IF index = 0 THEN wrapped.round ELSE newRound,
         updatedCombat |-> wrapped]

\* The do-while loop of nextTurn, entered with the loop variables as they are before
\* an iteration; it yields them as they are when the loop ends.
RECURSIVE FindNextActive(_, _, _, _, _)
FindNextActive(c, nextIndex, iterations, newRound, updatedCombat) ==
    LET maxIterations == Len(c.initiativeOrder)
        index == (nextIndex + 1) % Len(c.initiativeOrder)
        count == iterations + 1
        wrapped == IF index = 0 THEN processEndOfRound(updatedCombat) ELSE updatedCombat
        round == IF index = 0 THEN wrapped.round ELSE newRound
    IN  IF At(wrapped.initiativeOrder, index).status # "active" /\ count < maxIterations
        THEN FindNextActive(c, index, count, round, wrapped)
        ELSE [nextIndex |-> index, iterations |-> count, newRound |-> round,
              updatedCombat |-> wrapped]

RECURSIVE nextTurn(_)

\* Mutant of nextTurn: the return for a combat without an active combatant is missing.
MutNextTurnNoneActive(c) ==
    IF ~c.isActive THEN c
    ELSE
        LET found == FindNextActive(c, c.currentTurnIndex, 0, c.round, c)
            currentCombatant == At(found.updatedCombat.initiativeOrder, found.nextIndex)
            updatedOrder ==
                ReplaceAt(found.updatedCombat.initiativeOrder, found.nextIndex,
                    [currentCombatant EXCEPT !.turnResources =
                        createDefaultTurnResources(currentCombatant.speed)])
            isSurprised ==
                /\ found.newRound = 1
                /\ Includes(found.updatedCombat.surprisedCombatantIds, currentCombatant.id)
            result == [found.updatedCombat EXCEPT !.round = found.newRound,
                                                  !.currentTurnIndex = found.nextIndex,
                                                  !.initiativeOrder = updatedOrder]
        IN  IF isSurprised THEN nextTurn(result) ELSE result

\* Mutant of nextTurn: the return for a combat that is not active is missing.
MutNextTurnInactive(c) ==
    IF \A i \in Indices(c.initiativeOrder) : At(c.initiativeOrder, i).status # "active"
    THEN [c EXCEPT !.isActive = FALSE]
    ELSE
        LET found == FindNextActive(c, c.currentTurnIndex, 0, c.round, c)
            currentCombatant == At(found.updatedCombat.initiativeOrder, found.nextIndex)
            updatedOrder ==
                ReplaceAt(found.updatedCombat.initiativeOrder, found.nextIndex,
                    [currentCombatant EXCEPT !.turnResources =
                        createDefaultTurnResources(currentCombatant.speed)])
            isSurprised ==
                /\ found.newRound = 1
                /\ Includes(found.updatedCombat.surprisedCombatantIds, currentCombatant.id)
            result == [found.updatedCombat EXCEPT !.round = found.newRound,
                                                  !.currentTurnIndex = found.nextIndex,
                                                  !.initiativeOrder = updatedOrder]
        IN  IF isSurprised THEN nextTurn(result) ELSE result

\* Mutant of nextTurn: a surprised combatant is passed over in round 2 as well.
MutNextTurnSurprise(c) ==
    IF ~c.isActive THEN c
    ELSE IF \A i \in Indices(c.initiativeOrder) : At(c.initiativeOrder, i).status # "active"
    THEN [c EXCEPT !.isActive = FALSE]
    ELSE
        LET found == FindNextActive(c, c.currentTurnIndex, 0, c.round, c)
            currentCombatant == At(found.updatedCombat.initiativeOrder, found.nextIndex)
            updatedOrder ==
                ReplaceAt(found.updatedCombat.initiativeOrder, found.nextIndex,
                    [currentCombatant EXCEPT !.turnResources =
                        createDefaultTurnResources(currentCombatant.speed)])
            isSurprised ==
                /\ found.newRound <= 2
                /\ Includes(found.updatedCombat.surprisedCombatantIds, currentCombatant.id)
            result == [found.updatedCombat EXCEPT !.round = found.newRound,
                                                  !.currentTurnIndex = found.nextIndex,
                                                  !.initiativeOrder = updatedOrder]
        IN  IF isSurprised THEN nextTurn(result) ELSE result

nextTurn(c) ==
    IF ~c.isActive THEN c
    ELSE IF \A i \in Indices(c.initiativeOrder) : At(c.initiativeOrder, i).status # "active"
    THEN [c EXCEPT !.isActive = FALSE]
    ELSE
        LET found == FindNextActive(c, c.currentTurnIndex, 0, c.round, c)
            currentCombatant == At(found.updatedCombat.initiativeOrder, found.nextIndex)
            updatedOrder ==
                ReplaceAt(found.updatedCombat.initiativeOrder, found.nextIndex,
                    [currentCombatant EXCEPT !.turnResources =
                        createDefaultTurnResources(currentCombatant.speed)])
            isSurprised ==
                /\ found.newRound = 1
                /\ Includes(found.updatedCombat.surprisedCombatantIds, currentCombatant.id)
            result == [found.updatedCombat EXCEPT !.round = found.newRound,
                                                  !.currentTurnIndex = found.nextIndex,
                                                  !.initiativeOrder = updatedOrder]
        IN  IF isSurprised THEN nextTurn(result) ELSE result

(***************************************************************************)
(* CombatEngine.applyDamage and applyHealing                               *)
(* A result with thrown = TRUE stands for `throw new Error("Combatant not  *)
(* found")`: no Combat is returned and the caller keeps the one it passed. *)
(***************************************************************************)
\* Mutant of TargetIndex: an id that is not found stands for the first combatant.
MutTargetIndex(c, targetId) == Max(0, IndexOfId(c.initiativeOrder, targetId))

TargetIndex(c, targetId) == IndexOfId(c.initiativeOrder, targetId)

\* Mutant of DepleteTempHp: the temporary HP absorbed is not taken off the damage.
MutDepleteTempHp(tempHp, amount) ==
    LET remainingDamage == Max(0, amount)
    IN  IF tempHp > 0
        THEN [remainingDamage |-> remainingDamage,
              actualDamage |-> Min(tempHp, remainingDamage),
              newTempHp |-> Max(0, tempHp - remainingDamage)]
        ELSE [remainingDamage |-> remainingDamage, actualDamage |-> 0, newTempHp |-> tempHp]

\* Lines 353-368: the clamped amount is taken from temporary HP first.
DepleteTempHp(tempHp, amount) ==
    LET remainingDamage == Max(0, amount)
    IN  IF tempHp > 0
        THEN IF remainingDamage >= tempHp
             THEN [remainingDamage |-> remainingDamage - tempHp,
                   actualDamage |-> tempHp, newTempHp |-> 0]
             ELSE [remainingDamage |-> 0,
                   actualDamage |-> remainingDamage, newTempHp |-> tempHp - remainingDamage]
        ELSE [remainingDamage |-> remainingDamage, actualDamage |-> 0, newTempHp |-> tempHp]

\* Mutant of DamagedHp: damage leaves the current HP as they are.
MutDamagedHp(currentHp, remainingDamage) == currentHp

\* Lines 370-375: the remainder is taken from current HP, clamped at 0.
DamagedHp(currentHp, remainingDamage) == Max(0, currentHp - remainingDamage)

\* Mutant of DamagedStatus: a player at 0 HP is defeated like a monster.
MutDamagedStatus(target, newCurrentHp) ==
    IF newCurrentHp = 0 THEN "defeated" ELSE target.status

\* Lines 381-385
DamagedStatus(target, newCurrentHp) ==
    IF newCurrentHp = 0
    THEN (IF target.isPlayer THEN "active" ELSE "defeated")
    ELSE target.status

\* Lines 387-395
DamagedConditions(target, wasDowned) ==
    IF wasDowned
    THEN Append(target.conditions, Condition("unconscious", "damage", UntilDispelled))
    ELSE target.conditions

applyDamage(c, targetId, amount) ==
    LET targetIndex == TargetIndex(c, targetId)
    IN  IF targetIndex = -1
        THEN [thrown |-> TRUE, combat |-> c, actualDamage |-> 0,
              wasKnockedOut |-> FALSE, wasDowned |-> FALSE]
        ELSE
            LET target == At(c.initiativeOrder, targetIndex)
                temp == DepleteTempHp(target.tempHp, amount)
                newCurrentHp == DamagedHp(target.currentHp, temp.remainingDamage)
                actualDamage == temp.actualDamage + temp.remainingDamage
                wasKnockedOut == target.currentHp > 0 /\ newCurrentHp = 0
                wasDowned == wasKnockedOut /\ target.isPlayer
            IN  [thrown |-> FALSE,
                 combat |-> [c EXCEPT !.initiativeOrder =
                    ReplaceAt(c.initiativeOrder, targetIndex,
                        [target EXCEPT !.currentHp = newCurrentHp,
                                       !.tempHp = temp.newTempHp,
                                       !.status = DamagedStatus(target, newCurrentHp),
                                       !.conditions = DamagedConditions(target, wasDowned)])],
                 actualDamage |-> actualDamage,
                 wasKnockedOut |-> wasKnockedOut,
                 wasDowned |-> wasDowned]

\* Mutant of HealedHp: the cap at maxHp is missing.
MutHealedHp(target, amount) == target.currentHp + amount

\* Line 439
HealedHp(target, amount) == Min(target.maxHp, target.currentHp + amount)

NotUnconscious(condition) == condition.name # "unconscious"

\* Mutant of HealedConditions: a revived target keeps its conditions.
MutHealedConditions(target, newCurrentHp) == target.conditions

\* Lines 443-446
HealedConditions(target, newCurrentHp) ==
    IF target.currentHp = 0 /\ newCurrentHp > 0
    THEN SelectSeq(target.conditions, NotUnconscious)
    ELSE target.conditions

\* Line 453
HealedStatus(target, newCurrentHp) ==
    IF newCurrentHp > 0 THEN "active" ELSE target.status

applyHealing(c, targetId, amount) ==
    LET targetIndex == TargetIndex(c, targetId)
    IN  IF targetIndex = -1
        THEN [thrown |-> TRUE, combat |-> c, actualHealing |-> 0, wasRevived |-> FALSE]
        ELSE
            LET target == At(c.initiativeOrder, targetIndex)
                wasAtZero == target.currentHp = 0
                newCurrentHp == HealedHp(target, amount)
            IN  [thrown |-> FALSE,
                 combat |-> [c EXCEPT !.initiativeOrder =
                    ReplaceAt(c.initiativeOrder, targetIndex,
                        [target EXCEPT !.currentHp = newCurrentHp,
                                       !.conditions = HealedConditions(target, newCurrentHp),
                                       !.status = HealedStatus(target, newCurrentHp)])],
                 actualHealing |-> newCurrentHp - target.currentHp,
                 wasRevived |-> wasAtZero /\ newCurrentHp > 0]

(***************************************************************************)
(* CombatEngine.addCondition and removeCondition                           *)
(***************************************************************************)
\* Mutant of LongerDuration: the type of the existing duration is not looked at.
MutLongerDuration(condition, existing) ==
    /\ condition.duration.type = "rounds"
    /\ condition.duration.value # NoValue
    /\ condition.duration.value >
          (IF Truthy(existing.duration.value) THEN existing.duration.value ELSE 0)

\* `condition.duration.value! > (existing.duration.value || 0)`: a comparison with an
\* absent value is false.
LongerDuration(condition, existing) ==
    /\ condition.duration.type = "rounds"
    /\ existing.duration.type = "rounds"
    /\ condition.duration.value # NoValue
    /\ condition.duration.value >
          (IF Truthy(existing.duration.value) THEN existing.duration.value ELSE 0)

addCondition(c, targetId, condition) ==
    LET targetIndex == TargetIndex(c, targetId)
    IN  IF targetIndex = -1
        THEN [thrown |-> TRUE, combat |-> c]
        ELSE
            LET target == At(c.initiativeOrder, targetIndex)
                existingIndex == IndexOfName(target.conditions, condition.name)
            IN  IF existingIndex # -1
                THEN IF LongerDuration(condition, At(target.conditions, existingIndex))
                     THEN [thrown |-> FALSE,
                           combat |-> [c EXCEPT !.initiativeOrder =
                              ReplaceAt(c.initiativeOrder, targetIndex,
                                  [target EXCEPT !.conditions =
                                      ReplaceAt(target.conditions, existingIndex, condition)])]]
                     ELSE [thrown |-> FALSE, combat |-> c]
                ELSE [thrown |-> FALSE,
                      combat |-> [c EXCEPT !.initiativeOrder =
                         ReplaceAt(c.initiativeOrder, targetIndex,
                             [target EXCEPT !.conditions =
                                 Append(target.conditions, condition)])]]

removeCondition(c, targetId, conditionName) ==
    LET targetIndex == TargetIndex(c, targetId)
    IN  IF targetIndex = -1
        THEN [thrown |-> TRUE, combat |-> c]
        ELSE
            LET target == At(c.initiativeOrder, targetIndex)
                OtherName(x) == x.name # conditionName
            IN  [thrown |-> FALSE,
                 combat |-> [c EXCEPT !.initiativeOrder =
                    ReplaceAt(c.initiativeOrder, targetIndex,
                        [target EXCEPT !.conditions =
                            SelectSeq(target.conditions, OtherName)])]]

(***************************************************************************)
(* CombatEngine.useAction, useBonusAction, useReaction and useMovement     *)
(***************************************************************************)
useAction(c, combatantId) ==
    LET index == TargetIndex(c, combatantId)
    IN  IF index = -1 THEN c
        ELSE [c EXCEPT !.initiativeOrder[index + 1].turnResources.hasAction = FALSE]

\* Mutant of useBonusAction: the action is spent with the bonus action.
MutUseBonusAction(c, combatantId) ==
    LET index == TargetIndex(c, combatantId)
    IN  IF index = -1 THEN c
        ELSE [c EXCEPT !.initiativeOrder[index + 1].turnResources.hasBonusAction = FALSE,
                       !.initiativeOrder[index + 1].turnResources.hasAction = FALSE]

useBonusAction(c, combatantId) ==
    LET index == TargetIndex(c, combatantId)
    IN  IF index = -1 THEN c
        ELSE [c EXCEPT !.initiativeOrder[index + 1].turnResources.hasBonusAction = FALSE]

useReaction(c, combatantId) ==
    LET index == TargetIndex(c, combatantId)
    IN  IF index = -1 THEN c
        ELSE [c EXCEPT !.initiativeOrder[index + 1].turnResources.hasReaction = FALSE]

\* Mutant of useMovement: the floor at 0 is missing.
MutUseMovement(c, combatantId, amount) ==
    LET index == TargetIndex(c, combatantId)
    IN  IF index = -1 THEN c
        ELSE LET combatant == At(c.initiativeOrder, index)
                 newRemaining == combatant.turnResources.movementRemaining - amount
             IN  [c EXCEPT !.initiativeOrder[index + 1].turnResources.movementRemaining =
                               newRemaining]

useMovement(c, combatantId, amount) ==
    LET index == TargetIndex(c, combatantId)
    IN  IF index = -1 THEN c
        ELSE LET combatant == At(c.initiativeOrder, index)
                 newRemaining == Max(0, combatant.turnResources.movementRemaining - amount)
             IN  [c EXCEPT !.initiativeOrder[index + 1].turnResources.movementRemaining =
                               newRemaining]

(***************************************************************************)
(* CombatEngine.flee and addTempHp                                         *)
(***************************************************************************)
\* Mutant of flee: the combatant that fled is moved to the end of the order.
MutFlee(c, combatantId) ==
    LET index == TargetIndex(c, combatantId)
        order == c.initiativeOrder
    IN  IF index = -1 THEN c
        ELSE [c EXCEPT !.initiativeOrder =
                SubSeq(order, 1, index) \o SubSeq(order, index + 2, Len(order))
                \o <<[order[index + 1] EXCEPT !.status = "fled"]>>]

flee(c, combatantId) ==
    LET index == TargetIndex(c, combatantId)
    IN  IF index = -1 THEN c
        ELSE [c EXCEPT !.initiativeOrder[index + 1].status = "fled"]

\* Mutant of addTempHp: the grant replaces the temporary HP the target has.
MutAddTempHp(c, targetId, amount) ==
    LET index == TargetIndex(c, targetId)
    IN  IF index = -1 THEN c
        ELSE [c EXCEPT !.initiativeOrder[index + 1].tempHp = amount]

addTempHp(c, targetId, amount) ==
    LET index == TargetIndex(c, targetId)
    IN  IF index = -1 THEN c
        ELSE [c EXCEPT !.initiativeOrder[index + 1].tempHp =
                  Max(At(c.initiativeOrder, index).tempHp, amount)]

(***************************************************************************)
(* CombatEngine.endCombat and checkCombatEnd                               *)
(***************************************************************************)
\* Line 672: the placeholder award for a defeated enemy
XpPerEnemy == 50

IsDefeatedEnemy(x) == x.type = "enemy" /\ x.status = "defeated"

IsSurvivingPlayer(x) == x.isPlayer /\ x.status = "active"

\* Mutant of endCombat: an enemy that fled is awarded like a defeated one.
MutEndCombat(c, outcome) ==
    LET IsGone(x) == x.type = "enemy" /\ x.status # "active"
        defeatedEnemies == SelectSeq(c.initiativeOrder, IsGone)
        surviving == SelectSeq(c.initiativeOrder, IsSurvivingPlayer)
    IN  [combat |-> [c EXCEPT !.isActive = FALSE],
         xpEarned |-> Len(defeatedEnemies) * XpPerEnemy,
         survivingPlayers |-> [i \in 1 .. Len(surviving) |-> surviving[i].id]]

\* The outcome is not used.
endCombat(c, outcome) ==
    LET defeatedEnemies == SelectSeq(c.initiativeOrder, IsDefeatedEnemy)
        surviving == SelectSeq(c.initiativeOrder, IsSurvivingPlayer)
    IN  [combat |-> [c EXCEPT !.isActive = FALSE],
         xpEarned |-> Len(defeatedEnemies) * XpPerEnemy,
         survivingPlayers |-> [i \in 1 .. Len(surviving) |-> surviving[i].id]]

\* Mutant of IsActivePlayer: the hit points are not looked at.
MutIsActivePlayer(x) == x.isPlayer /\ x.status = "active"

\* Line 693
IsActivePlayer(x) == x.isPlayer /\ x.status = "active" /\ x.currentHp > 0

\* Mutant of IsActiveEnemy: the status is not looked at.
MutIsActiveEnemy(x) == x.type = "enemy"

\* Line 696
IsActiveEnemy(x) == x.type = "enemy" /\ x.status = "active"

\* An absent suggestedOutcome
NoOutcome == "none"

checkCombatEnd(c) ==
    LET activePlayers == SelectSeq(c.initiativeOrder, IsActivePlayer)
        activeEnemies == SelectSeq(c.initiativeOrder, IsActiveEnemy)
    IN  IF Len(activeEnemies) = 0 /\ Len(activePlayers) > 0
        THEN [shouldEnd |-> TRUE, suggestedOutcome |-> "victory"]
        ELSE IF Len(activePlayers) = 0 /\ Len(activeEnemies) > 0
        THEN [shouldEnd |-> TRUE, suggestedOutcome |-> "defeat"]
        ELSE IF Len(activePlayers) = 0 /\ Len(activeEnemies) = 0
        THEN [shouldEnd |-> TRUE, suggestedOutcome |-> "defeat"]
        ELSE [shouldEnd |-> FALSE, suggestedOutcome |-> NoOutcome]

(***************************************************************************)
(* The caller: one action per engine operation                             *)
(***************************************************************************)
NoId == "none"

\* What the caller keeps of a call: the operation, its arguments and what it returned
\* besides the Combat. args and result hold the arguments and the result of the
\* operations that take no Combat (startCombat and the dice rolls).
NoCall ==
    [op |-> "startCombat", targetId |-> NoId, amount |-> 0,
     condition |-> Condition("none", "none", UntilDispelled),
     thrown |-> FALSE, actualDamage |-> 0, wasKnockedOut |-> FALSE, wasDowned |-> FALSE,
     actualHealing |-> 0, wasRevived |-> FALSE,
     shouldEnd |-> FALSE, suggestedOutcome |-> NoOutcome,
     xpEarned |-> 0, survivingPlayers |-> <<>>,
     args |-> <<>>, result |-> <<>>]

Ids(c) == {At(c.initiativeOrder, i).id : i \in Indices(c.initiativeOrder)}

\* The combatant with the given id (CombatEngine.getCombatant), for a known id.
getCombatant(c, id) == At(c.initiativeOrder, TargetIndex(c, id))

\* One caller holds the Combat: nobody shares it.
NoActors == <<>>

\* The caller replaces the Combat it holds by the one the operation returned.
Call(call, returned) ==
    /\ pre' = combat
    /\ combat' = returned
    /\ last' = call
    /\ started' = started
    /\ prevDowned' = IF last.op = "applyDamage" /\ last.wasDowned THEN last.targetId ELSE NoId
    /\ turnCalls' = IF call.op = "nextTurn" /\ turnCalls.only
                    THEN [turnCalls EXCEPT !.n = @ + 1]
                    ELSE [only |-> FALSE, n |-> 0]
    /\ actors' = actors

Amounts == (0 - MaxDebt) .. MaxAmount

ApplyDamage(amounts) ==
    \E targetId \in Ids(combat), amount \in amounts :
        LET r == applyDamage(combat, targetId, amount)
        IN  /\ Len(getCombatant(r.combat, targetId).conditions) <= MaxConditions
            /\ Call([NoCall EXCEPT !.op = "applyDamage", !.targetId = targetId,
                                   !.amount = amount, !.thrown = r.thrown,
                                   !.actualDamage = r.actualDamage,
                                   !.wasKnockedOut = r.wasKnockedOut,
                                   !.wasDowned = r.wasDowned],
                    r.combat)

ApplyHealing(amounts) ==
    \E targetId \in Ids(combat), amount \in amounts :
        LET r == applyHealing(combat, targetId, amount)
        IN  /\ getCombatant(r.combat, targetId).currentHp >= 0 - MaxDebt
            /\ Call([NoCall EXCEPT !.op = "applyHealing", !.targetId = targetId,
                                   !.amount = amount, !.thrown = r.thrown,
                                   !.actualHealing = r.actualHealing,
                                   !.wasRevived = r.wasRevived],
                    r.combat)

AddTempHp(amounts) ==
    \E targetId \in Ids(combat), amount \in amounts :
        Call([NoCall EXCEPT !.op = "addTempHp", !.targetId = targetId, !.amount = amount],
             addTempHp(combat, targetId, amount))

Flee ==
    \E combatantId \in Ids(combat) :
        Call([NoCall EXCEPT !.op = "flee", !.targetId = combatantId],
             flee(combat, combatantId))

AddCondition(conditions) ==
    \E targetId \in Ids(combat), condition \in conditions :
        LET r == addCondition(combat, targetId, condition)
        IN  Call([NoCall EXCEPT !.op = "addCondition", !.targetId = targetId,
                                !.condition = condition, !.thrown = r.thrown],
                 r.combat)

RemoveCondition(names) ==
    \E targetId \in Ids(combat), conditionName \in names :
        LET r == removeCondition(combat, targetId, conditionName)
        IN  Call([NoCall EXCEPT !.op = "removeCondition", !.targetId = targetId,
                                !.condition = Condition(conditionName, "none", UntilDispelled),
                                !.thrown = r.thrown],
                 r.combat)

NextTurn ==
    LET r == nextTurn(combat)
    IN  /\ combat.round < MaxRound \/ r.round = combat.round
        /\ Call([NoCall EXCEPT !.op = "nextTurn"], r)

ProcessEndOfRound ==
    /\ combat.round <= MaxRounds
    /\ Call([NoCall EXCEPT !.op = "processEndOfRound"], processEndOfRound(combat))

UseAction ==
    \E combatantId \in Ids(combat) :
        Call([NoCall EXCEPT !.op = "useAction", !.targetId = combatantId],
             useAction(combat, combatantId))

UseBonusAction ==
    \E combatantId \in Ids(combat) :
        Call([NoCall EXCEPT !.op = "useBonusAction", !.targetId = combatantId],
             useBonusAction(combat, combatantId))

UseReaction ==
    \E combatantId \in Ids(combat) :
        Call([NoCall EXCEPT !.op = "useReaction", !.targetId = combatantId],
             useReaction(combat, combatantId))

UseMovement(amounts) ==
    \E combatantId \in Ids(combat), amount \in amounts :
        Call([NoCall EXCEPT !.op = "useMovement", !.targetId = combatantId,
                            !.amount = amount],
             useMovement(combat, combatantId, amount))

\* The use* operations called with an id that is not in the order.
UseActionUnknown(combatantIds) ==
    \E combatantId \in combatantIds \ Ids(combat) :
        Call([NoCall EXCEPT !.op = "useAction", !.targetId = combatantId],
             useAction(combat, combatantId))

UseBonusActionUnknown(combatantIds) ==
    \E combatantId \in combatantIds \ Ids(combat) :
        Call([NoCall EXCEPT !.op = "useBonusAction", !.targetId = combatantId],
             useBonusAction(combat, combatantId))

UseReactionUnknown(combatantIds) ==
    \E combatantId \in combatantIds \ Ids(combat) :
        Call([NoCall EXCEPT !.op = "useReaction", !.targetId = combatantId],
             useReaction(combat, combatantId))

UseMovementUnknown(combatantIds, amounts) ==
    \E combatantId \in combatantIds \ Ids(combat), amount \in amounts :
        Call([NoCall EXCEPT !.op = "useMovement", !.targetId = combatantId,
                            !.amount = amount],
             useMovement(combat, combatantId, amount))

\* The four operations that throw, called with an id that is not in the order.
ApplyDamageUnknown(targetIds, amounts) ==
    \E targetId \in targetIds \ Ids(combat), amount \in amounts :
        LET r == applyDamage(combat, targetId, amount)
        IN  Call([NoCall EXCEPT !.op = "applyDamage", !.targetId = targetId,
                                !.amount = amount, !.thrown = r.thrown,
                                !.actualDamage = r.actualDamage,
                                !.wasKnockedOut = r.wasKnockedOut,
                                !.wasDowned = r.wasDowned],
                 r.combat)

ApplyHealingUnknown(targetIds, amounts) ==
    \E targetId \in targetIds \ Ids(combat), amount \in amounts :
        LET r == applyHealing(combat, targetId, amount)
        IN  Call([NoCall EXCEPT !.op = "applyHealing", !.targetId = targetId,
                                !.amount = amount, !.thrown = r.thrown,
                                !.actualHealing = r.actualHealing,
                                !.wasRevived = r.wasRevived],
                 r.combat)

AddConditionUnknown(targetIds, conditions) ==
    \E targetId \in targetIds \ Ids(combat), condition \in conditions :
        LET r == addCondition(combat, targetId, condition)
        IN  Call([NoCall EXCEPT !.op = "addCondition", !.targetId = targetId,
                                !.condition = condition, !.thrown = r.thrown],
                 r.combat)

RemoveConditionUnknown(targetIds, names) ==
    \E targetId \in targetIds \ Ids(combat), conditionName \in names :
        LET r == removeCondition(combat, targetId, conditionName)
        IN  Call([NoCall EXCEPT !.op = "removeCondition", !.targetId = targetId,
                                !.condition = Condition(conditionName, "none", UntilDispelled),
                                !.thrown = r.thrown],
                 r.combat)

\* checkCombatEnd returns no Combat: the caller keeps the one it holds.
CheckCombatEnd ==
    \E r \in {checkCombatEnd(combat)} :
        Call([NoCall EXCEPT !.op = "checkCombatEnd", !.shouldEnd = r.shouldEnd,
                            !.suggestedOutcome = r.suggestedOutcome],
             combat)

EndCombat(outcomes) ==
    \E r \in {endCombat(combat, outcome) : outcome \in outcomes} :
        Call([NoCall EXCEPT !.op = "endCombat", !.xpEarned = r.xpEarned,
                            !.survivingPlayers = r.survivingPlayers],
             r.combat)

(***************************************************************************)
(* Inputs of startCombat                                                   *)
(***************************************************************************)
Hero(currentHp, tempHp) ==
    [id |-> "hero", characterClass |-> "Fighter", dexterity |-> 14,
     currentHp |-> currentHp, maxHp |-> MaxHp, tempHp |-> tempHp, speed |-> 30,
     conditions |-> <<>>]

Mage == [Hero(MaxHp, 0) EXCEPT !.id = "mage"]

Goblin == [name |-> "goblin", hitPoints |-> MaxHp, dexterity |-> 14, walk |-> 30]

Start(c) ==
    /\ combat = c
    /\ pre = c
    /\ last = NoCall
    /\ started = c
    /\ prevDowned = NoId
    /\ turnCalls = [only |-> TRUE, n |-> 0]
    /\ actors = NoActors

(***************************************************************************)
(* Spec: hit points and conditions of one combatant, a player character    *)
(* or an enemy monster, under damage, healing, temporary HP, conditions    *)
(* and flight                                                              *)
(***************************************************************************)
ConditionArgs ==
    {Condition("unconscious", "spell", Rounds(1)),
     Condition("unconscious", "spell", UntilDispelled),
     Condition("poisoned", "spell", Rounds(MaxRounds))}

Init ==
    \/ \E currentHp \in 0 .. MaxHp, tempHp \in 0 .. 1 :
          Start(startCombat(<<Hero(currentHp, tempHp)>>, <<>>, <<>>, <<>>, <<10>>, "uuid"))
    \/ Start(startCombat(<<>>, <<Goblin>>, <<>>, <<>>, <<10>>, "uuid"))

Next ==
    \/ ApplyDamage(Amounts)
    \/ ApplyHealing(Amounts)
    \/ AddTempHp(Amounts)
    \/ Flee
    \/ AddCondition(ConditionArgs)
    \/ RemoveCondition({"unconscious", "poisoned"})

Spec == Init /\ [][Next]_vars

(***************************************************************************)
(* Properties of hit points and conditions, checked under Spec             *)
(***************************************************************************)
Combatants(c) == {At(c.initiativeOrder, i) : i \in Indices(c.initiativeOrder)}

\* The target of the last operation before and after it
Before == getCombatant(pre, last.targetId)
After == getCombatant(combat, last.targetId)

Returned(op) == last.op = op /\ ~last.thrown

CountNamed(conditions, name) ==
    Cardinality({i \in 1 .. Len(conditions) : conditions[i].name = name})

\* C1: in every reachable Combat state every combatant has 0 <= currentHp <= maxHp.
C1_HpWithinBounds ==
    \A x \in Combatants(combat) : 0 <= x.currentHp /\ x.currentHp <= x.maxHp

\* C2: no combatant carries two ActiveCondition entries with the same condition name.
C2_NoDuplicateConditions ==
    \A x \in Combatants(combat) :
        \A i, j \in 1 .. Len(x.conditions) :
            x.conditions[i].name = x.conditions[j].name => i = j

\* C3: a player at 0 HP is active and carries an unconscious condition, and a
\* non-player at 0 HP is defeated.
C3_ZeroHpStatus ==
    \A x \in Combatants(combat) :
        x.currentHp = 0 =>
            IF x.isPlayer
            THEN x.status = "active" /\ CountNamed(x.conditions, "unconscious") >= 1
            ELSE x.status = "defeated"

\* C4: applyDamage clamps the amount to >= 0, takes it from tempHp first and reduces
\* currentHp only by the part exceeding tempHp, floored at 0; tempHp afterwards is
\* max(0, tempHp - amount).
C4_TempHpFirst ==
    Returned("applyDamage") =>
        LET amount == Max(0, last.amount)
            excess == Max(0, amount - Before.tempHp)
        IN  /\ After.tempHp = Max(0, Before.tempHp - amount)
            /\ After.currentHp = Max(0, Before.currentHp - excess)
            /\ After.currentHp >= 0
            /\ (amount <= Before.tempHp /\ Before.currentHp >= 0
                    => After.currentHp = Before.currentHp)

C4_Witness ==
    /\ Returned("applyDamage")
    /\ Before.tempHp > 0
    /\ last.amount > Before.tempHp
    /\ After.tempHp = 0
    /\ After.currentHp = Before.currentHp - (last.amount - Before.tempHp)
    /\ After.currentHp > 0

\* C5: the actualDamage applyDamage returns is the HP actually lost (tempHp lost plus
\* currentHp lost) and never exceeds tempHp + currentHp before the hit.
C5_ActualDamageIsHpLost ==
    Returned("applyDamage") =>
        /\ last.actualDamage =
              (Before.tempHp - After.tempHp) + (Before.currentHp - After.currentHp)
        /\ last.actualDamage <= Before.tempHp + Before.currentHp

\* C6: wasKnockedOut holds exactly when currentHp was > 0 before and is 0 after, and
\* wasDowned = wasKnockedOut and isPlayer; a player knocked out ends active with an
\* unconscious condition of source "damage" and open-ended duration; a non-player
\* that ends at 0 HP is defeated.
C6_KnockOut ==
    Returned("applyDamage") =>
        /\ last.wasKnockedOut <=> (Before.currentHp > 0 /\ After.currentHp = 0)
        /\ last.wasDowned <=> (last.wasKnockedOut /\ Before.isPlayer)
        /\ last.wasDowned =>
              /\ After.status = "active"
              /\ \E i \in 1 .. Len(After.conditions) :
                    After.conditions[i] = Condition("unconscious", "damage", UntilDispelled)
        /\ (~After.isPlayer /\ After.currentHp = 0) => After.status = "defeated"

C6_Witness ==
    /\ Returned("applyDamage")
    /\ last.wasDowned
    /\ Before.status = "fled"
    /\ After.status = "active"

\* C7: applyHealing sets currentHp to min(maxHp, currentHp + amount) and returns the
\* HP actually gained, so currentHp never rises above maxHp and actualHealing never
\* exceeds maxHp - currentHp before the call.
C7_HealingCapped ==
    Returned("applyHealing") =>
        /\ After.currentHp = Min(Before.maxHp, Before.currentHp + last.amount)
        /\ last.actualHealing = After.currentHp - Before.currentHp
        /\ After.currentHp <= After.maxHp
        /\ last.actualHealing <= Before.maxHp - Before.currentHp

C7_Witness ==
    /\ Returned("applyHealing")
    /\ Before.currentHp + last.amount > Before.maxHp
    /\ Before.currentHp < Before.maxHp
    /\ After.currentHp = After.maxHp
    /\ last.actualHealing < last.amount

\* C8: wasRevived holds exactly when the target was at 0 HP before and is above 0
\* after; then every unconscious condition is gone and the status is active; and a
\* positive applyHealing right after applyDamage downed a player leaves that player
\* active without an unconscious condition.
C8_Revival ==
    Returned("applyHealing") =>
        /\ last.wasRevived <=> (Before.currentHp = 0 /\ After.currentHp > 0)
        /\ last.wasRevived =>
              /\ CountNamed(After.conditions, "unconscious") = 0
              /\ After.status = "active"
        /\ (prevDowned = last.targetId /\ last.amount > 0) =>
              /\ last.wasRevived
              /\ CountNamed(After.conditions, "unconscious") = 0
              /\ After.status = "active"

C8_Witness ==
    /\ Returned("applyHealing")
    /\ prevDowned = last.targetId
    /\ last.amount > 0
    /\ last.wasRevived
    /\ CountNamed(Before.conditions, "unconscious") = 2
    /\ CountNamed(After.conditions, "unconscious") = 0

\* C23: addTempHp sets the target's tempHp to max(current tempHp, amount): grants do
\* not add up and a lower grant does not reduce it; over addTempHp and applyDamage
\* calls tempHp stays >= 0 and addTempHp never lowers it.
C23_TempHpMax ==
    /\ \A x \in Combatants(combat) : x.tempHp >= 0
    /\ last.op = "addTempHp" =>
          /\ After.tempHp = Max(Before.tempHp, last.amount)
          /\ After.tempHp >= Before.tempHp
          /\ combat =
                [pre EXCEPT !.initiativeOrder[TargetIndex(pre, last.targetId) + 1].tempHp =
                                Max(@, last.amount)]

\* A higher grant took the place of the temporary HP held, without adding to it.
C23_Witness ==
    /\ last.op = "addTempHp"
    /\ Before.tempHp > 0
    /\ last.amount > Before.tempHp
    /\ After.tempHp = last.amount
    /\ After.tempHp < Before.tempHp + last.amount

\* A lower grant, and a negative one, left the temporary HP as it was.
C23_WitnessLower ==
    /\ last.op = "addTempHp"
    /\ last.amount < 0
    /\ Before.tempHp > 0
    /\ After.tempHp = Before.tempHp

(***************************************************************************)
(* SpecTurn: turn order of one player character and one or more enemy      *)
(* monsters, some of them surprised, while combatants are taken to 0 HP,   *)
(* or flee                                                      *)
(***************************************************************************)
MaxMonsters == 2      \* startCombat is given 1..MaxMonsters enemy monsters

Goblins(n) == [i \in 1 .. n |-> Goblin]

\* The d20 draws: all equal (the input order is kept) or rising (it is reversed).
RollChoices(n) == {[i \in 1 .. n |-> 10], [i \in 1 .. n |-> 5 + i]}

SurpriseChoices(n) ==
    {<<>>, <<"goblin_1">>,
     <<"hero">> \o [i \in 1 .. n |-> MonsterId("", Goblin, i - 1)]}

InitTurn ==
    \E n \in 1 .. MaxMonsters, currentHp \in {0, MaxHp} :
        \E rolls \in RollChoices(n + 1), surprisedIds \in SurpriseChoices(n) :
            Start(startCombat(<<Hero(currentHp, 0)>>, Goblins(n), <<>>, surprisedIds,
                              rolls, "uuid"))

NextTurnStep ==
    \/ NextTurn
    \/ ApplyDamage({MaxHp})
    \/ Flee

SpecTurn == InitTurn /\ [][NextTurnStep]_vars

AnyActive(c) == \E x \in Combatants(c) : x.status = "active"

\* C9: from a freshly started combat with N combatants, all active and none
\* surprised, N consecutive nextTurn calls bring currentTurnIndex back to 0 and
\* increase round by exactly 1.
C9_FullRound ==
    ( /\ turnCalls.only
      /\ Len(started.initiativeOrder) >= 1
      /\ turnCalls.n = Len(started.initiativeOrder)
      /\ \A x \in Combatants(started) : x.status = "active"
      /\ started.surprisedCombatantIds = <<>> )
    => /\ combat.currentTurnIndex = 0
       /\ combat.round = started.round + 1

C9_Witness ==
    /\ turnCalls.only
    /\ turnCalls.n = Len(started.initiativeOrder)
    /\ Len(started.initiativeOrder) = MaxMonsters + 1
    /\ \A x \in Combatants(started) : x.status = "active"
    /\ started.surprisedCombatantIds = <<>>
    /\ last.op = "nextTurn"
    /\ pre.currentTurnIndex = MaxMonsters
    /\ combat.currentTurnIndex = 0
    /\ combat.round = 2

\* C10: after nextTurn on an active combat with at least one active combatant, the
\* combatant at currentTurnIndex is active and, if the round is 1, not surprised.
C10_LandsOnActive ==
    (last.op = "nextTurn" /\ pre.isActive /\ AnyActive(pre)) =>
        LET current == At(combat.initiativeOrder, combat.currentTurnIndex)
        IN  /\ current.status = "active"
            /\ combat.round = 1 =>
                  ~Includes(combat.surprisedCombatantIds, current.id)

\* nextTurn passed over a defeated combatant and over a surprised one in round 1.
C10_Witness ==
    /\ last.op = "nextTurn" /\ pre.isActive /\ AnyActive(pre)
    /\ pre.round = 1 /\ combat.round = 1
    /\ pre.currentTurnIndex = 0 /\ combat.currentTurnIndex = 2
    /\ At(pre.initiativeOrder, 1).status # "active"
    /\ At(combat.initiativeOrder, 2).status = "active"

C10_WitnessSurprised ==
    /\ last.op = "nextTurn" /\ pre.isActive
    /\ pre.round = 1 /\ combat.round = 1
    /\ pre.currentTurnIndex = 0 /\ combat.currentTurnIndex = 2
    /\ At(pre.initiativeOrder, 1).status = "active"
    /\ Includes(pre.surprisedCombatantIds, At(pre.initiativeOrder, 1).id)

\* C11: in every reachable state of an active combat with round = 1, from startCombat
\* onwards, the current combatant is not a member of surprisedCombatantIds.
C11_SurprisedNeverCurrent ==
    (combat.isActive /\ combat.round = 1) =>
        ~Includes(combat.surprisedCombatantIds, getCurrentCombatant(combat).id)

\* C13: nextTurn on an active combat without an active combatant returns it with
\* isActive = false and with round, currentTurnIndex, initiativeOrder and every
\* combatant unchanged.
C13_NoneActiveEnds ==
    (last.op = "nextTurn" /\ pre.isActive /\ ~AnyActive(pre)) =>
        /\ ~combat.isActive
        /\ combat.round = pre.round
        /\ combat.currentTurnIndex = pre.currentTurnIndex
        /\ combat.initiativeOrder = pre.initiativeOrder
        /\ combat = [pre EXCEPT !.isActive = FALSE]

\* The combat ended in round 1 with a surprised combatant next in the order, after
\* one combatant fled and another was defeated.
C13_Witness ==
    /\ last.op = "nextTurn" /\ pre.isActive /\ ~AnyActive(pre)
    /\ ~combat.isActive
    /\ pre.round = 1
    /\ Len(pre.initiativeOrder) = MaxMonsters + 1
    /\ Includes(pre.surprisedCombatantIds, At(pre.initiativeOrder, 1).id)
    /\ \E x \in Combatants(pre) : x.status = "fled"
    /\ \E x \in Combatants(pre) : x.status = "defeated"

\* The positions the last nextTurn advanced the turn index, the passes of its
\* recursive calls included: every step onto index 0 has counted one round.
Advanced ==
    (combat.round - pre.round) * Len(pre.initiativeOrder)
        + (combat.currentTurnIndex - pre.currentTurnIndex)

\* C14 as stated: every nextTurn call advances the turn index at most N positions,
\* the steps inside the surprise-skip recursion included.
C14_OnePass ==
    last.op = "nextTurn" => Advanced <= Len(pre.initiativeOrder)

\* C14: every nextTurn call returns, having advanced the turn index at most 2N - 1
\* positions, and at most N when it starts after round 1 or nobody is surprised.
C14_TwoPasses ==
    last.op = "nextTurn" =>
        /\ 0 <= Advanced
        /\ Advanced <= 2 * Len(pre.initiativeOrder) - 1
        /\ (pre.round > 1 \/ pre.surprisedCombatantIds = <<>>) =>
              Advanced <= Len(pre.initiativeOrder)

\* A surprised combatant was passed over in round 1 and the call made for it went
\* once around the order: 2N - 1 positions.
C14_Witness ==
    /\ last.op = "nextTurn"
    /\ Len(pre.initiativeOrder) = MaxMonsters + 1
    /\ pre.round = 1 /\ combat.round = 2
    /\ Advanced = 2 * Len(pre.initiativeOrder) - 1

(***************************************************************************)
(* SpecResources: the turn resources of one player character and one enemy *)
(* monster, spent by either of them at any time and given back by nextTurn *)
(***************************************************************************)
\* Feet moved at a time: part of the speed of 30, or all of it.
Feet == {20, 30}

InitResources ==
    \E currentHp \in {0, MaxHp}, surprisedIds \in {<<>>, <<"goblin_1">>} :
        Start(startCombat(<<Hero(currentHp, 0)>>, <<Goblin>>, <<>>, surprisedIds,
                          <<10, 10>>, "uuid"))

NextResources ==
    \/ NextTurn
    \/ UseAction
    \/ UseBonusAction
    \/ UseReaction
    \/ UseMovement(Feet)
    \/ UseActionUnknown({"invalid-id"})
    \/ UseBonusActionUnknown({"invalid-id"})
    \/ UseReactionUnknown({"invalid-id"})
    \/ UseMovementUnknown({"invalid-id"}, Feet)

SpecResources == InitResources /\ [][NextResources]_vars

\* C12: after nextTurn, the combatant that is current in the returned state has
\* hasAction, hasBonusAction and hasReaction true and movementRemaining equal to
\* its speed, whatever it had spent before.
C12_ResourcesReset ==
    (last.op = "nextTurn" /\ combat.isActive /\ Len(combat.initiativeOrder) > 0) =>
        LET current == getCurrentCombatant(combat)
        IN  /\ current.turnResources.hasAction
            /\ current.turnResources.hasBonusAction
            /\ current.turnResources.hasReaction
            /\ current.turnResources.movementRemaining = current.speed

\* The combatant nextTurn landed on had spent everything.
C12_Witness ==
    /\ last.op = "nextTurn"
    /\ combat.isActive
    /\ combat.currentTurnIndex # pre.currentTurnIndex
    /\ LET before == At(pre.initiativeOrder, combat.currentTurnIndex).turnResources
       IN  /\ ~before.hasAction /\ ~before.hasBonusAction /\ ~before.hasReaction
           /\ before.movementRemaining = 0
    /\ getCurrentCombatant(combat).turnResources = createDefaultTurnResources(30)

UseOps == {"useAction", "useBonusAction", "useReaction", "useMovement"}

\* The turn resources of the target of the last operation once the operation named
\* has flipped its flag
Flipped(op, resources) ==
    CASE op = "useAction" -> [resources EXCEPT !.hasAction = FALSE]
      [] op = "useBonusAction" -> [resources EXCEPT !.hasBonusAction = FALSE]
      [] op = "useReaction" -> [resources EXCEPT !.hasReaction = FALSE]

\* C21: the use* operations called with an id that matches no combatant raise no
\* error and return the Combat unchanged; with a known id useAction, useBonusAction
\* and useReaction set only their flag of that combatant to false.
C21_UseFlags ==
    /\ (last.op \in UseOps /\ last.targetId \notin Ids(pre)) =>
          ~last.thrown /\ combat = pre
    /\ (last.op \in UseOps \ {"useMovement"} /\ last.targetId \in Ids(pre)) =>
          /\ ~last.thrown
          /\ combat =
                [pre EXCEPT !.initiativeOrder[TargetIndex(pre, last.targetId) + 1]
                                .turnResources = Flipped(last.op, @)]

\* The bonus action of a combatant that still had its action was spent.
C21_Witness ==
    /\ last.op = "useBonusAction"
    /\ Before.turnResources.hasBonusAction /\ Before.turnResources.hasAction
    /\ ~After.turnResources.hasBonusAction /\ After.turnResources.hasAction
    /\ combat.currentTurnIndex # TargetIndex(combat, last.targetId)

\* useMovement was called with an id the combat does not have, after resources
\* had been spent.
C21_WitnessUnknown ==
    /\ last.op = "useMovement"
    /\ last.targetId = "invalid-id"
    /\ combat = pre
    /\ \E x \in Combatants(combat) : x.turnResources.movementRemaining < x.speed

\* C22: useMovement sets movementRemaining to max(0, movementRemaining - amount),
\* and in every reachable state every combatant has movementRemaining >= 0.
C22_MovementFloor ==
    /\ \A x \in Combatants(combat) : x.turnResources.movementRemaining >= 0
    /\ (last.op = "useMovement" /\ last.targetId \in Ids(pre)) =>
          combat =
              [pre EXCEPT !.initiativeOrder[TargetIndex(pre, last.targetId) + 1]
                              .turnResources.movementRemaining =
                                  Max(0, @ - last.amount)]

\* More feet were asked for than were left.
C22_Witness ==
    /\ last.op = "useMovement"
    /\ last.targetId \in Ids(pre)
    /\ Before.turnResources.movementRemaining > 0
    /\ last.amount > Before.turnResources.movementRemaining
    /\ After.turnResources.movementRemaining = 0

(***************************************************************************)
(* SpecRounds: the conditions of one player character and one enemy        *)
(* monster while conditions are added and removed and rounds end, and      *)
(* calls that name a combatant the combat does not have                    *)
(***************************************************************************)
RoundConditionArgs ==
    {Condition("poisoned", "spell", Rounds(k)) : k \in 0 .. MaxRounds}
    \cup {Condition("poisoned", "trap", Rounds(1)),
          Condition("poisoned", "trap", UntilDispelled),
          Condition("stunned", "spell", UntilSave(1))}

UnknownIds == {"invalid-id", "goblin_2"}

InitRounds ==
    Start(startCombat(<<Hero(MaxHp, 0)>>, <<Goblin>>, <<>>, <<>>, <<10, 10>>, "uuid"))

NextRounds ==
    \/ AddCondition(RoundConditionArgs)
    \/ RemoveCondition({"poisoned"})
    \/ ProcessEndOfRound
    \/ ApplyDamageUnknown(UnknownIds, {MaxAmount})
    \/ ApplyHealingUnknown(UnknownIds, {MaxAmount})
    \/ AddConditionUnknown(UnknownIds, {Condition("poisoned", "spell", Rounds(1))})
    \/ RemoveConditionUnknown(UnknownIds, {"poisoned"})

SpecRounds == InitRounds /\ [][NextRounds]_vars

\* What the end of a round is to make of a list of conditions: rounds-counted ones
\* lose one round and go when none is left, the others stay as they are.
ExpectedAfterRound(conditions) ==
    LET Counted(x) == IF x.duration.type = "rounds"
                      THEN [x EXCEPT !.duration.value = @ - 1]
                      ELSE x
        Left(x) == x.duration.type = "rounds" => x.duration.value > 0
    IN  SelectSeq([i \in 1 .. Len(conditions) |-> Counted(conditions[i])], Left)

\* The combat after n more ends of round
RECURSIVE Processed(_, _)
Processed(c, n) == IF n = 0 THEN c ELSE Processed(processEndOfRound(c), n - 1)

\* C15: processEndOfRound increases round by exactly 1 and, for every combatant,
\* decrements each rounds-typed condition's value by 1, removes those that have
\* reached 0 and leaves every other condition unchanged; a rounds condition added
\* with value k >= 1 is still present after k-1 ends of round and absent after k.
C15_EndOfRound ==
    /\ last.op = "processEndOfRound" =>
          /\ combat.round = pre.round + 1
          /\ combat =
                [pre EXCEPT !.round = @ + 1,
                            !.initiativeOrder =
                                [i \in 1 .. Len(pre.initiativeOrder) |->
                                    [pre.initiativeOrder[i] EXCEPT !.conditions =
                                        ExpectedAfterRound(@)]]]
    /\ ( /\ Returned("addCondition")
         /\ last.condition.duration.type = "rounds"
         /\ last.condition.duration.value >= 1
         /\ \E i \in 1 .. Len(After.conditions) : After.conditions[i] = last.condition )
       => LET k == last.condition.duration.value
              Later(n) == getCombatant(Processed(combat, n), last.targetId).conditions
          IN  /\ CountNamed(Later(k - 1), last.condition.name) = 1
              /\ CountNamed(Later(k), last.condition.name) = 0

\* A round ended in which one combatant's condition lost a round and stayed, the
\* other's ran out, and a condition that is not counted in rounds stayed as it was.
C15_Witness ==
    /\ last.op = "processEndOfRound"
    /\ \E x \in Combatants(pre), y \in Combatants(combat) :
          /\ x.id = y.id
          /\ Len(x.conditions) = 2 /\ Len(y.conditions) = 2
          /\ \E i \in 1 .. 2 :
                /\ x.conditions[i].duration = Rounds(MaxRounds)
                /\ y.conditions[i].duration = Rounds(MaxRounds - 1)
          /\ \E i \in 1 .. 2 :
                /\ x.conditions[i].duration = UntilSave(1)
                /\ y.conditions[i] = x.conditions[i]
    /\ \E x \in Combatants(pre), y \in Combatants(combat) :
          /\ x.id = y.id
          /\ CountNamed(x.conditions, "poisoned") = 1
          /\ CountNamed(y.conditions, "poisoned") = 0

\* C16: addCondition appends the condition when the target has none of that name;
\* when one exists it replaces the entry only if both durations are rounds-typed and
\* the incoming value is strictly greater; otherwise the Combat is returned unchanged.
C16_AddCondition ==
    Returned("addCondition") =>
        LET existingIndex == IndexOfName(Before.conditions, last.condition.name)
            existing == At(Before.conditions, existingIndex)
            With(conditions) ==
                [pre EXCEPT !.initiativeOrder[TargetIndex(pre, last.targetId) + 1]
                                .conditions = conditions]
        IN  IF existingIndex = -1
            THEN combat = With(Append(Before.conditions, last.condition))
            ELSE IF /\ existing.duration.type = "rounds"
                    /\ last.condition.duration.type = "rounds"
                    /\ last.condition.duration.value > existing.duration.value
                 THEN combat = With(ReplaceAt(Before.conditions, existingIndex,
                                              last.condition))
                 ELSE combat = pre

\* A longer duration from another source replaced the second entry of the list.
C16_Witness ==
    /\ Returned("addCondition")
    /\ Len(Before.conditions) = 2
    /\ Before.conditions[2] = Condition("poisoned", "trap", Rounds(1))
    /\ last.condition = Condition("poisoned", "spell", Rounds(MaxRounds))
    /\ After.conditions[2] = last.condition
    /\ After.conditions[1] = Before.conditions[1]

\* An equal duration and an open-ended one left the combat as it was.
C16_WitnessNoChange ==
    /\ Returned("addCondition")
    /\ combat = pre
    /\ CountNamed(Before.conditions, "poisoned") = 1
    /\ last.condition = Condition("poisoned", "trap", UntilDispelled)

\* C20: applyDamage, applyHealing, addCondition and removeCondition called with a
\* targetId that matches no combatant fail, and the caller's Combat is as before.
C20_NotFound ==
    ( /\ last.op \in {"applyDamage", "applyHealing", "addCondition", "removeCondition"}
      /\ last.targetId \notin Ids(pre) )
    => /\ last.thrown
       /\ combat = pre

\* removeCondition was called with an id the combat does not have, while a
\* combatant carried a condition.
C20_Witness ==
    /\ last.op = "removeCondition"
    /\ last.targetId = "invalid-id"
    /\ last.thrown
    /\ combat = pre
    /\ \E x \in Combatants(combat) : x.conditions # <<>>

(***************************************************************************)
(* SpecEnd: the end of a combat of two player characters, an enemy monster *)
(* and, or not, an allied monster, while combatants are taken to 0 HP or   *)
(* flee                                                                    *)
(***************************************************************************)
InitEnd ==
    \E currentHp \in {0, MaxHp}, allyMonsters \in {<<>>, <<Goblin>>} :
        Start(startCombat(<<Hero(currentHp, 0), Mage>>, <<Goblin>>, allyMonsters, <<>>,
                          [i \in 1 .. 3 + Len(allyMonsters) |-> 10], "uuid"))

NextEnd ==
    \/ ApplyDamage({MaxHp})
    \/ Flee
    \/ CheckCombatEnd
    \/ EndCombat({"victory", "defeat"})

SpecEnd == InitEnd /\ [][NextEnd]_vars

Players(c) == {x \in Combatants(c) : x.isPlayer}
Enemies(c) == {x \in Combatants(c) : x.type = "enemy"}

Suggested(outcome) == last.shouldEnd /\ last.suggestedOutcome = outcome

\* C17 as stated: checkCombatEnd decides on status alone: victory when no enemy has
\* status active and a player has, defeat when no player has status active, and
\* shouldEnd = false whenever a player and an enemy both have status active.
C17_StatusAlone ==
    last.op = "checkCombatEnd" =>
        LET playerActive == \E x \in Players(combat) : x.status = "active"
            enemyActive == \E x \in Enemies(combat) : x.status = "active"
        IN  /\ (~enemyActive /\ playerActive) => Suggested("victory")
            /\ ~playerActive => Suggested("defeat")
            /\ (playerActive /\ enemyActive) => ~last.shouldEnd

\* C17: checkCombatEnd counts a player when its status is active and its currentHp
\* is above 0, and an enemy when its status is active: victory when no enemy counts
\* and a player does, defeat when no player counts, and shouldEnd = false, without
\* an outcome, exactly when a player and an enemy both count.
C17_StatusAndHp ==
    last.op = "checkCombatEnd" =>
        LET playerActive ==
                \E x \in Players(combat) : x.status = "active" /\ x.currentHp > 0
            enemyActive == \E x \in Enemies(combat) : x.status = "active"
        IN  /\ (~enemyActive /\ playerActive) => Suggested("victory")
            /\ ~playerActive => Suggested("defeat")
            /\ (playerActive /\ enemyActive) <=> ~last.shouldEnd
            /\ ~last.shouldEnd => last.suggestedOutcome = NoOutcome
            /\ combat = pre

\* Defeat was suggested while a player, downed, had status active, next to an
\* active enemy.
C17_Witness ==
    /\ last.op = "checkCombatEnd"
    /\ Suggested("defeat")
    /\ \E x \in Players(combat) : x.status = "active" /\ x.currentHp = 0
    /\ \A x \in Players(combat) : x.status = "active" => x.currentHp = 0
    /\ \E x \in Enemies(combat) : x.status = "active"

C18_WitnessVictory ==
    /\ last.op = "checkCombatEnd"
    /\ \A x \in Enemies(combat) : x.currentHp = 0 /\ x.status = "defeated"
    /\ \E x \in Players(combat) : x.status = "active" /\ x.currentHp > 0
    /\ \E x \in Players(combat) : x.status = "active" /\ x.currentHp = 0
    /\ Suggested("victory")

\* C19: endCombat returns the combat with isActive = false and every other field
\* unchanged, xpEarned = the award per enemy times the number of enemy-type
\* combatants with status defeated, and survivingPlayers = the ids of exactly the
\* combatants with isPlayer = true and status active.
C19_EndCombat ==
    last.op = "endCombat" =>
        /\ combat = [pre EXCEPT !.isActive = FALSE]
        /\ ~combat.isActive
        /\ last.xpEarned =
              XpPerEnemy * Cardinality({i \in Indices(pre.initiativeOrder) :
                  /\ At(pre.initiativeOrder, i).type = "enemy"
                  /\ At(pre.initiativeOrder, i).status = "defeated"})
        /\ {last.survivingPlayers[i] : i \in 1 .. Len(last.survivingPlayers)} =
              {x.id : x \in {y \in Players(pre) : y.status = "active"}}
        /\ Len(last.survivingPlayers) =
              Cardinality({y \in Players(pre) : y.status = "active"})

\* A combat ended with the enemy fled and the ally defeated (no award), one player
\* downed but of status active and the other fled.
C19_Witness ==
    /\ last.op = "endCombat"
    /\ pre.isActive
    /\ last.xpEarned = 0
    /\ \E x \in Enemies(pre) : x.status = "fled"
    /\ \E x \in Combatants(pre) : x.type = "ally" /\ x.status = "defeated"
    /\ last.survivingPlayers = <<"mage">>
    /\ getCombatant(pre, "mage").currentHp = 0
    /\ getCombatant(pre, "hero").status = "fled"

\* A combat ended with the enemy defeated: one award.
C19_WitnessAward ==
    /\ last.op = "endCombat"
    /\ last.xpEarned = XpPerEnemy
    /\ last.survivingPlayers = <<"hero", "mage">>

(***************************************************************************)
(* SpecStart: startCombat for every choice of player characters, enemy     *)
(* monsters, allied monsters, surprised ids and d20 draws, run again and   *)
(* again with the arguments and the draws of the first run                 *)
(***************************************************************************)
\* A character with a dexterity modifier of -1 (the hero's is +2).
Wizard == [Hero(MaxHp, 0) EXCEPT !.id = "wizard", !.dexterity = 8]

\* A monster whose name, "Ally Goblin", is normalised to ally_goblin.
AllyGoblin == [name |-> "ally_goblin", hitPoints |-> 1, dexterity |-> 8, walk |-> 20]

CharacterChoices ==
    {<<>>, <<Hero(MaxHp, 0)>>, <<Hero(MaxHp, 0), Wizard>>, <<Wizard, Hero(0, 0)>>}

MonsterChoices == {<<>>, <<Goblin>>, <<AllyGoblin, Goblin>>}

AllyChoices == {<<>>, <<Goblin>>}

\* The d20 draws of rollInitiative: a hero who draws 8 and a wizard who draws 11
\* have the same total and different modifiers.
D20Draws == {8, 11}

\* uuidv4() of the Combat's id: each run of startCombat draws one.
Uuids == {"uuid", "uuid-2"}

StartArgs(characters, monsters, allyMonsters, surprisedIds, rolls) ==
    [characters |-> characters, monsters |-> monsters, allyMonsters |-> allyMonsters,
     surprisedIds |-> surprisedIds, rolls |-> rolls]

StartCombatWith(args, uuid) ==
    startCombat(args.characters, args.monsters, args.allyMonsters, args.surprisedIds,
                args.rolls, uuid)

InitStart ==
    \E characters \in CharacterChoices, monsters \in MonsterChoices,
       allyMonsters \in AllyChoices, surprisedIds \in {<<>>, <<"goblin_1", "hero">>},
       uuid \in Uuids :
        \E rolls \in [1 .. Len(characters) + Len(monsters) + Len(allyMonsters) -> D20Draws] :
            LET args == StartArgs(characters, monsters, allyMonsters, surprisedIds, rolls)
                c == StartCombatWith(args, uuid)
            IN  /\ combat = c
                /\ pre = c
                /\ last = [NoCall EXCEPT !.args = args]
                /\ started = c
                /\ prevDowned = NoId
                /\ turnCalls = [only |-> TRUE, n |-> 0]
                /\ actors = NoActors

\* The caller runs startCombat once more, with the arguments and the d20 draws of the
\* run before.
StartCombatAgain ==
    \E uuid \in Uuids :
        \E c \in {StartCombatWith(last.args, uuid)} :
            Call([NoCall EXCEPT !.args = last.args], c)

NextStart == StartCombatAgain

SpecStart == InitStart /\ [][NextStart]_vars

\* The participants startCombat was given, in the order of its arguments, each with
\* the id startCombat gives it.
ParticipantIds(args) ==
    [i \in 1 .. Len(args.characters) |-> args.characters[i].id]
    \o [i \in 1 .. Len(args.monsters) |-> MonsterId("", args.monsters[i], i - 1)]
    \o [i \in 1 .. Len(args.allyMonsters) |-> MonsterId("ally_", args.allyMonsters[i], i - 1)]

DistinctIds(ids) == \A i, j \in 1 .. Len(ids) : ids[i] = ids[j] => i = j

CountOfType(c, type) ==
    Cardinality({i \in Indices(c.initiativeOrder) : At(c.initiativeOrder, i).type = type})

C24_WitnessSharedId ==
    /\ ~DistinctIds(ParticipantIds(last.args))
    /\ CountOfType(combat, "ally") = 0
    /\ CountOfType(combat, "enemy") = Len(last.args.monsters) + 1

\* The dexterity modifiers of the participants, in the order of ParticipantIds.
ParticipantModifiers(args) ==
    [i \in 1 .. Len(args.characters) |-> getAbilityModifier(args.characters[i].dexterity)]
    \o [i \in 1 .. Len(args.monsters) |-> getAbilityModifier(args.monsters[i].dexterity)]
    \o [i \in 1 .. Len(args.allyMonsters) |->
            getAbilityModifier(args.allyMonsters[i].dexterity)]

\* Participant i comes before participant j: higher total, or equal totals and higher
\* modifier, or both equal and earlier in the input.
ComesBefore(args, i, j) ==
    LET modifiers == ParticipantModifiers(args)
        total(k) == args.rolls[k] + modifiers[k]
    IN  \/ total(i) > total(j)
        \/ total(i) = total(j) /\ modifiers[i] > modifiers[j]
        \/ total(i) = total(j) /\ modifiers[i] = modifiers[j] /\ i < j

\* The place of participant i in an order sorted by ComesBefore.
Place(args, i) ==
    1 + Cardinality({j \in 1 .. Len(args.rolls) : ComesBefore(args, j, i)})

\* C25: the initiative order of the Combat startCombat returns is the participants
\* sorted by total (d20 draw + dexterity modifier) descending, equal totals by
\* modifier descending, and participants equal in both in the order they were given
\* in: each participant's id, draw and total stand at the participant's place in
\* that sorting.
C25_InitiativeSorted ==
    LET args == last.args
        ids == ParticipantIds(args)
        modifiers == ParticipantModifiers(args)
        order == combat.initiativeOrder
    IN  /\ Len(order) = Len(ids)
        /\ \A i \in 1 .. Len(ids) :
              LET x == order[Place(args, i)]
              IN  /\ x.id = ids[i]
                  /\ x.initiative.roll = args.rolls[i]
                  /\ x.initiative.total = args.rolls[i] + modifiers[i]

\* The wizard is given before the hero and draws 11, the hero draws 8: both have the
\* total 10, and the hero, whose modifier is higher, stands before the wizard.
C25_Witness ==
    /\ Len(last.args.characters) = 2
    /\ last.args.characters[1].id = "wizard"
    /\ last.args.rolls[1] = 11
    /\ last.args.rolls[2] = 8
    /\ \E k \in 1 .. Len(combat.initiativeOrder) - 1 :
          /\ combat.initiativeOrder[k].id = "hero"
          /\ combat.initiativeOrder[k + 1].id = "wizard"
          /\ combat.initiativeOrder[k].initiative.total
                = combat.initiativeOrder[k + 1].initiative.total

\* An enemy goblin and an allied goblin with the same draw are equal in total and
\* modifier and stand in the order they were given in.
C25_WitnessInputOrder ==
    /\ last.args.characters = <<>>
    /\ last.args.monsters = <<Goblin>>
    /\ last.args.allyMonsters = <<Goblin>>
    /\ last.args.rolls[1] = last.args.rolls[2]
    /\ combat.initiativeOrder[1].id = "goblin_1"
    /\ combat.initiativeOrder[2].id = "ally_goblin_1"

\* C27: two runs of startCombat with the same arguments and the same d20 draws return
\* Combats that are equal in every field (pre is what the run before returned, combat
\* what this run returned).
C27_SameRunsEqual == combat = pre

\* The two runs differ in nothing but the id, which each run draws with uuidv4().
C27_EqualButId == [combat EXCEPT !.id = pre.id] = pre

\* Two runs with the same arguments and draws, and two different Combat ids.
C27_Witness ==
    /\ Len(last.args.rolls) > 0
    /\ combat.id # pre.id
    /\ combat.initiativeOrder = pre.initiativeOrder

(***************************************************************************)
(* SpecFrame: every operation that takes a Combat, on one player character *)
(* and one enemy monster                                                   *)
(***************************************************************************)
MaxTouched == 2       \* at most MaxTouched things differ from a fresh combatant's

BoolToNat(b) == IF b THEN 1 ELSE 0

\* In how many things a combatant differs from one that is unhurt, active, free of
\* conditions and temporary HP, and has spent nothing of its turn.
TouchedOne(x) ==
    BoolToNat(x.currentHp < x.maxHp) + BoolToNat(x.tempHp > 0)
    + BoolToNat(x.status # "active") + Len(x.conditions)
    + BoolToNat(~x.turnResources.hasAction) + BoolToNat(~x.turnResources.hasBonusAction)
    + BoolToNat(~x.turnResources.hasReaction)
    + BoolToNat(x.turnResources.movementRemaining < x.speed)

RECURSIVE TouchedUpTo(_, _)
TouchedUpTo(c, n) ==
    IF n = 0 THEN 0 ELSE TouchedUpTo(c, n - 1) + TouchedOne(c.initiativeOrder[n])

Touched(c) == TouchedUpTo(c, Len(c.initiativeOrder))

InitFrame ==
    \E rolls \in RollChoices(2) :
        Start(startCombat(<<Hero(MaxHp, 0)>>, <<Goblin>>, <<>>, <<>>, rolls, "uuid"))

\* The states looked at: those with at most MaxTouched differences.
Within == Touched(combat') <= MaxTouched

NextFrame ==
    \/ NextTurn /\ Within
    \/ ProcessEndOfRound /\ Within
    \/ ApplyDamage({MaxHp}) /\ Within
    \/ ApplyHealing({MaxHp}) /\ Within
    \/ AddCondition({Condition("poisoned", "spell", Rounds(1))}) /\ Within
    \/ RemoveCondition({"poisoned"}) /\ Within
    \/ UseAction /\ Within
    \/ UseBonusAction /\ Within
    \/ UseReaction /\ Within
    \/ UseMovement({30}) /\ Within
    \/ Flee /\ Within
    \/ AddTempHp({MaxHp}) /\ Within
    \/ EndCombat({"victory"}) /\ Within

SpecFrame == InitFrame /\ [][NextFrame]_vars

\* What startCombat fixes of the initiative order: the sequence of the combatants'
\* ids, with each combatant's maxHp, type and isPlayer.
FixedAtStart(c) ==
    [i \in 1 .. Len(c.initiativeOrder) |->
        [id |-> c.initiativeOrder[i].id,
         maxHp |-> c.initiativeOrder[i].maxHp,
         type |-> c.initiativeOrder[i].type,
         isPlayer |-> c.initiativeOrder[i].isPlayer]]

\* C26: whatever operations were applied since startCombat (nextTurn,
\* processEndOfRound, applyDamage, applyHealing, addCondition, removeCondition,
\* useAction, useBonusAction, useReaction, useMovement, flee, addTempHp, endCombat),
\* the Combat has the combatants startCombat gave it, in the same order, each with
\* the same id, maxHp, type and isPlayer.
C26_OrderFixed == FixedAtStart(combat) = FixedAtStart(started)

\* A combat ended in its second round or later, after the first combatant in the
\* order has fled.
C26_Witness ==
    /\ last.op = "endCombat"
    /\ ~combat.isActive
    /\ combat.round > 1
    /\ combat.initiativeOrder[1].status = "fled"
    /\ combat.initiativeOrder # started.initiativeOrder

(***************************************************************************)
(* parseDiceNotation                                                       *)
(* A notation is the sequence of its characters.                           *)
(***************************************************************************)
DigitChars == <<"0", "1", "2", "3", "4", "5", "6", "7", "8", "9">>

IsDigit(ch) == \E i \in 1 .. Len(DigitChars) : DigitChars[i] = ch

DigitValue(ch) == (CHOOSE i \in 1 .. Len(DigitChars) : DigitChars[i] = ch) - 1

\* parseInt(str, 10) of a string of digits with an optional sign in front.
RECURSIVE parseInt(_)
parseInt(str) ==
    IF str = <<>> THEN 0
    ELSE IF str[1] = "+" THEN parseInt(Tail(str))
    ELSE IF str[1] = "-" THEN 0 - parseInt(Tail(str))
    ELSE parseInt(SubSeq(str, 1, Len(str) - 1)) * 10 + DigitValue(str[Len(str)])

\* toLowerCase of the letters a notation is made of.
ToLowerCase(ch) ==
    CASE ch = "D" -> "d" [] ch = "K" -> "k" [] ch = "H" -> "h" [] ch = "L" -> "l"
      [] OTHER -> ch

\* notation.toLowerCase().replace(/\s/g, '')
Normalized(notation) ==
    LET NotSpace(ch) == ch # " "
    IN  SelectSeq([i \in 1 .. Len(notation) |-> ToLowerCase(notation[i])], NotSpace)

\* The first place from i on that holds no digit.
RECURSIVE DigitsEnd(_, _)
DigitsEnd(str, i) ==
    IF i <= Len(str) /\ IsDigit(str[i]) THEN DigitsEnd(str, i + 1) ELSE i

\* The groups of a match whose parts end at p1 (the count), p2 (the sides), p3 (the
\* keep) and p4 (the modifier), a group that took part in no match being the empty
\* string; no match if the parts are not all there or do not end the string.
MatchGroups(str, p1, p2, p3, p4) ==
    LET hasKeep == p3 > p2
        hasModifier == p4 > p3
    IN  IF /\ p1 <= Len(str) /\ str[p1] = "d"
           /\ p2 > p1 + 1
           /\ hasKeep => p3 > p2 + 2
           /\ hasModifier => p4 > p3 + 1
           /\ p4 = Len(str) + 1
        THEN [matched |-> TRUE,
              countStr |-> SubSeq(str, 1, p1 - 1),
              sidesStr |-> SubSeq(str, p1 + 1, p2 - 1),
              keepHighStr |-> IF hasKeep /\ str[p2 + 1] = "h"
                              THEN SubSeq(str, p2 + 2, p3 - 1) ELSE <<>>,
              keepLowStr |-> IF hasKeep /\ str[p2 + 1] = "l"
                             THEN SubSeq(str, p2 + 2, p3 - 1) ELSE <<>>,
              modifierStr |-> IF hasModifier THEN SubSeq(str, p3, p4 - 1) ELSE <<>>]
        ELSE [matched |-> FALSE]

\* Where kh or kl and its digits end, if they start at p; p if they do not.
KeepEnd(str, p) ==
    IF p + 1 <= Len(str) /\ str[p] = "k" /\ str[p + 1] \in {"h", "l"}
    THEN DigitsEnd(str, p + 2) ELSE p

\* Where a sign and its digits end, if they start at p; p if they do not.
ModifierEnd(str, p) ==
    IF p <= Len(str) /\ str[p] \in {"+", "-"} THEN DigitsEnd(str, p + 1) ELSE p

\* normalized.match(/^(\d*)d(\d+)(kh(\d+)|kl(\d+))?([+-]\d+)?$/). Each place is worked
\* out once, from the one before it.
MatchNotation(str) ==
    CHOOSE match \in UNION UNION UNION
        {{{{MatchGroups(str, p1, p2, p3, p4) : p4 \in {ModifierEnd(str, p3)}} :
              p3 \in {KeepEnd(str, p2)}} :
            p2 \in {DigitsEnd(str, p1 + 1)}} :
          p1 \in {DigitsEnd(str, 1)}} : TRUE

InvalidNotation == [thrown |-> TRUE]

\* What parseDiceNotation makes of the groups of a match; keepHighest and keepLowest
\* are NoValue where the source has undefined.
ParsedDice(match) ==
    IF ~match.matched THEN InvalidNotation
    ELSE LET count == IF match.countStr # <<>> THEN parseInt(match.countStr) ELSE 1
             sides == parseInt(match.sidesStr)
         IN  IF count < 1 \/ count > 100 THEN InvalidNotation
             ELSE IF sides < 1 \/ sides > 100 THEN InvalidNotation
             ELSE [thrown |-> FALSE,
                   count |-> count,
                   sides |-> sides,
                   modifier |-> IF match.modifierStr # <<>>
                                THEN parseInt(match.modifierStr) ELSE 0,
                   keepHighest |-> IF match.keepHighStr # <<>>
                                   THEN parseInt(match.keepHighStr) ELSE NoValue,
                   keepLowest |-> IF match.keepLowStr # <<>>
                                  THEN parseInt(match.keepLowStr) ELSE NoValue]

parseDiceNotation(notation) ==
    CHOOSE parsed \in {ParsedDice(match) : match \in {MatchNotation(Normalized(notation))}} :
        TRUE

(***************************************************************************)
(* randomInt, rollDie and DiceEngine.roll                                  *)
(* The random values are an argument: draws[i] is the i-th value that      *)
(* crypto.getRandomValues hands out.                                       *)
(***************************************************************************)
\* min + (array[0] % range)
randomInt(min, max, draw) == min + (draw % (max - min + 1))

rollDie(sides, draw) == randomInt(1, sides, draw)

RECURSIVE SumOf(_)
SumOf(s) == IF s = <<>> THEN 0 ELSE s[1] + SumOf(Tail(s))

\* rolls.sort((a, b) => b - a) when descending, rolls.sort((a, b) => a - b) otherwise.
RECURSIVE SortRolls(_, _)
SortRolls(rolls, descending) ==
    IF rolls = <<>> THEN <<>>
    ELSE LET sorted == SortRolls(SubSeq(rolls, 1, Len(rolls) - 1), descending)
             x == rolls[Len(rolls)]
             k == Cardinality({i \in 1 .. Len(sorted) :
                                  IF descending THEN sorted[i] >= x ELSE sorted[i] <= x})
         IN  SubSeq(sorted, 1, k) \o <<x>> \o SubSeq(sorted, k + 1, Len(sorted))

\* Array.prototype.slice(0, end) for end >= 0
SliceTo(s, end) == SubSeq(s, 1, Min(end, Len(s)))

\* Mutant of KeptRolls: keep-lowest keeps the highest dice.
MutKeptRolls(rolls, parsed) ==
    IF parsed.keepHighest # NoValue
    THEN SliceTo(SortRolls(rolls, TRUE), parsed.keepHighest)
    ELSE IF parsed.keepLowest # NoValue
    THEN SliceTo(SortRolls(rolls, TRUE), parsed.keepLowest)
    ELSE rolls

\* The keep-highest and keep-lowest handling of roll.
KeptRolls(rolls, parsed) ==
    IF parsed.keepHighest # NoValue
    THEN SliceTo(SortRolls(rolls, TRUE), parsed.keepHighest)
    ELSE IF parsed.keepLowest # NoValue
    THEN SliceTo(SortRolls(rolls, FALSE), parsed.keepLowest)
    ELSE rolls

\* How many values roll draws for a notation.
DrawsOfRoll(notation) ==
    LET parsed == parseDiceNotation(notation)
    IN  IF parsed.thrown THEN 0 ELSE parsed.count

roll(notation, draws) ==
    LET parsed == parseDiceNotation(notation)
    IN  IF parsed.thrown THEN [thrown |-> TRUE]
        ELSE LET rolls == KeptRolls([i \in 1 .. parsed.count |->
                                        rollDie(parsed.sides, draws[i])], parsed)
             IN  [thrown |-> FALSE,
                  notation |-> notation,
                  rolls |-> rolls,
                  modifier |-> parsed.modifier,
                  total |-> SumOf(rolls) + parsed.modifier]

(***************************************************************************)
(* DiceEngine.rollD20, rollAbilityCheck, rollSavingThrow and rollAttack    *)
(***************************************************************************)
\* Math.ceil(level / 4) + 1
getProficiencyBonus(level) == ((level + 3) \div 4) + 1

\* The skills the model has, each with its ability.
SKILLS == [athletics |-> "strength", stealth |-> "dexterity", intimidation |-> "charisma"]

\* No skill is given (options.skill is undefined).
NoSkill == "none"

\* How many values rollD20 draws.
DrawsOfD20(advantageStatus) == IF advantageStatus = "normal" THEN 1 ELSE 2

rollD20(advantageStatus, draws) ==
    LET roll1 == rollDie(20, draws[1])
        roll2 == rollDie(20, draws[2])
    IN  IF advantageStatus = "normal"
        THEN [roll |-> roll1, rolls |-> <<roll1>>,
              hadAdvantage |-> FALSE, hadDisadvantage |-> FALSE]
        ELSE IF advantageStatus = "advantage"
        THEN [roll |-> Max(roll1, roll2), rolls |-> <<roll1, roll2>>,
              hadAdvantage |-> TRUE, hadDisadvantage |-> FALSE]
        ELSE [roll |-> Min(roll1, roll2), rolls |-> <<roll1, roll2>>,
              hadAdvantage |-> FALSE, hadDisadvantage |-> TRUE]

rollAbilityCheck(character, ability, dc, skill, advantageStatus, draws) ==
    LET d20Result == rollD20(advantageStatus, draws)
        abilityMod == getAbilityModifier(character.abilityScores[ability])
        profBonus == getProficiencyBonus(character.level)
        skillModifier ==
            IF skill # NoSkill /\ SKILLS[skill] # ability
            THEN getAbilityModifier(character.abilityScores[SKILLS[skill]])
            ELSE abilityMod
        proficiencyBonus ==
            IF skill = NoSkill THEN 0
            ELSE IF Includes(character.proficiencies.expertise, skill) THEN profBonus * 2
            ELSE IF Includes(character.proficiencies.skills, skill) THEN profBonus
            ELSE 0
        total == d20Result.roll + skillModifier + proficiencyBonus
        isCriticalSuccess == d20Result.roll = 20
        isCriticalFailure == d20Result.roll = 1
    IN  [thrown |-> FALSE,
         characterId |-> character.id,
         ability |-> ability,
         skill |-> skill,
         roll |-> d20Result.roll,
         modifier |-> skillModifier,
         proficiencyBonus |-> proficiencyBonus,
         total |-> total,
         dc |-> dc,
         success |-> IF isCriticalFailure THEN FALSE
                     ELSE IF isCriticalSuccess THEN TRUE
                     ELSE total >= dc,
         isCriticalSuccess |-> isCriticalSuccess,
         isCriticalFailure |-> isCriticalFailure,
         hadAdvantage |-> d20Result.hadAdvantage,
         hadDisadvantage |-> d20Result.hadDisadvantage]

rollSavingThrow(character, ability, dc, advantageStatus, draws) ==
    LET d20Result == rollD20(advantageStatus, draws)
        abilityMod == getAbilityModifier(character.abilityScores[ability])
        profBonus == getProficiencyBonus(character.level)
        proficiencyBonus ==
            IF Includes(character.proficiencies.savingThrows, ability) THEN profBonus ELSE 0
        total == d20Result.roll + abilityMod + proficiencyBonus
        isCriticalSuccess == d20Result.roll = 20
        isCriticalFailure == d20Result.roll = 1
    IN  [thrown |-> FALSE,
         characterId |-> character.id,
         ability |-> ability,
         roll |-> d20Result.roll,
         modifier |-> abilityMod,
         proficiencyBonus |-> proficiencyBonus,
         total |-> total,
         dc |-> dc,
         success |-> IF isCriticalFailure THEN FALSE
                     ELSE IF isCriticalSuccess THEN TRUE
                     ELSE total >= dc,
         isCriticalSuccess |-> isCriticalSuccess,
         isCriticalFailure |-> isCriticalFailure,
         hadAdvantage |-> d20Result.hadAdvantage,
         hadDisadvantage |-> d20Result.hadDisadvantage]

\* Mutant of rollAttack: a d20 result of 1 is treated as any other.
MutRollAttack(targetAC, attackBonus, advantageStatus, draws) ==
    LET d20Result == rollD20(advantageStatus, draws)
        total == d20Result.roll + attackBonus
        isCriticalHit == d20Result.roll = 20
        isCriticalMiss == d20Result.roll = 1
    IN  [thrown |-> FALSE,
         roll |-> d20Result.roll,
         attackBonus |-> attackBonus,
         total |-> total,
         targetAC |-> targetAC,
         hits |-> IF isCriticalHit THEN TRUE ELSE total >= targetAC,
         isCriticalHit |-> isCriticalHit,
         isCriticalMiss |-> isCriticalMiss,
         hadAdvantage |-> d20Result.hadAdvantage,
         hadDisadvantage |-> d20Result.hadDisadvantage]

\* The ids and names of attacker and target and the weapon are copied to the result
\* and left out here.
rollAttack(targetAC, attackBonus, advantageStatus, draws) ==
    LET d20Result == rollD20(advantageStatus, draws)
        total == d20Result.roll + attackBonus
        isCriticalHit == d20Result.roll = 20
        isCriticalMiss == d20Result.roll = 1
    IN  [thrown |-> FALSE,
         roll |-> d20Result.roll,
         attackBonus |-> attackBonus,
         total |-> total,
         targetAC |-> targetAC,
         hits |-> IF isCriticalMiss THEN FALSE
                  ELSE IF isCriticalHit THEN TRUE
                  ELSE total >= targetAC,
         isCriticalHit |-> isCriticalHit,
         isCriticalMiss |-> isCriticalMiss,
         hadAdvantage |-> d20Result.hadAdvantage,
         hadDisadvantage |-> d20Result.hadDisadvantage]

(***************************************************************************)
(* DiceEngine.rollDamage                                                   *)
(***************************************************************************)
\* Mutant of DiceCount: a critical hit does not double the dice.
MutDiceCount(count, isCritical) == count

\* isCritical ? parsed.count * 2 : parsed.count
DiceCount(count, isCritical) == IF isCritical THEN count * 2 ELSE count

\* The loop over additionalDamage: additionalSum of each source is the sum of its
\* dice plus the modifier of its notation. rolls holds the dice of each source, which
\* the source only sums up.
RECURSIVE RollAdditional(_, _, _)
RollAdditional(additionalDamage, isCritical, draws) ==
    IF additionalDamage = <<>> THEN [thrown |-> FALSE, rolls |-> <<>>, total |-> 0]
    ELSE LET additionalParsed == parseDiceNotation(additionalDamage[1].dice)
         IN  IF additionalParsed.thrown THEN [thrown |-> TRUE]
             ELSE LET additionalCount == DiceCount(additionalParsed.count, isCritical)
                      dice == [i \in 1 .. additionalCount |->
                                  rollDie(additionalParsed.sides, draws[i])]
                      additionalSum == SumOf(dice) + additionalParsed.modifier
                      rest == RollAdditional(Tail(additionalDamage), isCritical,
                                             SubSeq(draws, additionalCount + 1, Len(draws)))
                  IN  IF rest.thrown THEN [thrown |-> TRUE]
                      ELSE [thrown |-> FALSE,
                            rolls |-> <<dice>> \o rest.rolls,
                            total |-> additionalSum + rest.total]

\* How many values the loop over additionalDamage draws (up to a notation that is
\* invalid).
RECURSIVE DrawsOfAdditional(_, _)
DrawsOfAdditional(additionalDamage, isCritical) ==
    IF additionalDamage = <<>> THEN 0
    ELSE LET additionalParsed == parseDiceNotation(additionalDamage[1].dice)
         IN  IF additionalParsed.thrown THEN 0
             ELSE DiceCount(additionalParsed.count, isCritical)
                  + DrawsOfAdditional(Tail(additionalDamage), isCritical)

\* How many values rollDamage draws.
DrawsOfDamage(damageDice, isCritical, additionalDamage) ==
    LET parsed == parseDiceNotation(damageDice)
    IN  IF parsed.thrown THEN 0
        ELSE DiceCount(parsed.count, isCritical)
             + DrawsOfAdditional(additionalDamage, isCritical)

\* additionalRolls and additionalTotal are values the source computes and does not
\* return; damageType is copied to the result and left out.
rollDamage(damageDice, modifier, isCritical, additionalDamage, draws) ==
    LET parsed == parseDiceNotation(damageDice)
    IN  IF parsed.thrown THEN [thrown |-> TRUE]
        ELSE LET diceCount == DiceCount(parsed.count, isCritical)
                 rolls == [i \in 1 .. diceCount |-> rollDie(parsed.sides, draws[i])]
                 baseDamage == SumOf(rolls) + modifier
                 additional == RollAdditional(additionalDamage, isCritical,
                                              SubSeq(draws, diceCount + 1, Len(draws)))
             IN  IF additional.thrown THEN [thrown |-> TRUE]
                 ELSE [thrown |-> FALSE,
                       rolls |-> rolls,
                       modifier |-> modifier,
                       baseDamage |-> baseDamage,
                       additionalDamage |-> additionalDamage,
                       additionalRolls |-> additional.rolls,
                       additionalTotal |-> additional.total,
                       totalDamage |-> Max(0, baseDamage + additional.total),
                       isCritical |-> isCritical]

(***************************************************************************)
(* DiceEngine.rollDeathSave                                                *)
(***************************************************************************)
\* Mutant of rollDeathSave: a d20 result of 1 adds one failure, as 2..9 do.
MutRollDeathSave(currentSuccesses, currentFailures, draw) ==
    LET d20Roll == rollDie(20, draw)
    IN  IF d20Roll = 20
        THEN [thrown |-> FALSE, roll |-> d20Roll, success |-> TRUE, stable |-> TRUE,
              dead |-> FALSE, newSuccesses |-> 3, newFailures |-> currentFailures]
        ELSE IF d20Roll >= 10
        THEN [thrown |-> FALSE, roll |-> d20Roll, success |-> TRUE,
              stable |-> currentSuccesses + 1 >= 3, dead |-> FALSE,
              newSuccesses |-> Min(currentSuccesses + 1, 3),
              newFailures |-> currentFailures]
        ELSE [thrown |-> FALSE, roll |-> d20Roll, success |-> FALSE, stable |-> FALSE,
              dead |-> currentFailures + 1 >= 3,
              newSuccesses |-> currentSuccesses,
              newFailures |-> Min(currentFailures + 1, 3)]

\* Mutant of rollDeathSave: a success on 10..19 is not added to the successes.
MutRollDeathSaveForgets(currentSuccesses, currentFailures, draw) ==
    LET d20Roll == rollDie(20, draw)
    IN  IF d20Roll = 20
        THEN [thrown |-> FALSE, roll |-> d20Roll, success |-> TRUE, stable |-> TRUE,
              dead |-> FALSE, newSuccesses |-> 3, newFailures |-> currentFailures]
        ELSE IF d20Roll = 1
        THEN [thrown |-> FALSE, roll |-> d20Roll, success |-> FALSE, stable |-> FALSE,
              dead |-> currentFailures + 2 >= 3,
              newSuccesses |-> currentSuccesses,
              newFailures |-> Min(currentFailures + 2, 3)]
        ELSE IF d20Roll >= 10
        THEN [thrown |-> FALSE, roll |-> d20Roll, success |-> TRUE,
              stable |-> currentSuccesses >= 3, dead |-> FALSE,
              newSuccesses |-> currentSuccesses,
              newFailures |-> currentFailures]
        ELSE [thrown |-> FALSE, roll |-> d20Roll, success |-> FALSE, stable |-> FALSE,
              dead |-> currentFailures + 1 >= 3,
              newSuccesses |-> currentSuccesses,
              newFailures |-> Min(currentFailures + 1, 3)]

rollDeathSave(currentSuccesses, currentFailures, draw) ==
    LET d20Roll == rollDie(20, draw)
    IN  IF d20Roll = 20
        THEN [thrown |-> FALSE, roll |-> d20Roll, success |-> TRUE, stable |-> TRUE,
              dead |-> FALSE, newSuccesses |-> 3, newFailures |-> currentFailures]
        ELSE IF d20Roll = 1
        THEN [thrown |-> FALSE, roll |-> d20Roll, success |-> FALSE, stable |-> FALSE,
              dead |-> currentFailures + 2 >= 3,
              newSuccesses |-> currentSuccesses,
              newFailures |-> Min(currentFailures + 2, 3)]
        ELSE IF d20Roll >= 10
        THEN [thrown |-> FALSE, roll |-> d20Roll, success |-> TRUE,
              stable |-> currentSuccesses + 1 >= 3, dead |-> FALSE,
              newSuccesses |-> Min(currentSuccesses + 1, 3),
              newFailures |-> currentFailures]
        ELSE [thrown |-> FALSE, roll |-> d20Roll, success |-> FALSE, stable |-> FALSE,
              dead |-> currentFailures + 1 >= 3,
              newSuccesses |-> currentSuccesses,
              newFailures |-> Min(currentFailures + 1, 3)]

(***************************************************************************)
(* SpecDice: the dice rolls, for notations written out from their numbers  *)
(* and for every outcome of the random draws                               *)
(***************************************************************************)
MaxDice == 3          \* a notation asks for 1..MaxDice dice
MaxRaw == 4           \* crypto.getRandomValues hands out 0..MaxRaw

RawDraws == 0 .. MaxRaw

\* The decimal digits of a number n >= 0.
RECURSIVE ToDigits(_)
ToDigits(n) ==
    IF n < 10 THEN <<DigitChars[n + 1]>>
    ELSE ToDigits(n \div 10) \o <<DigitChars[(n % 10) + 1]>>

\* The notation a caller writes for count dice of the given sides, keeping the k
\* highest (keep = "h") or lowest (keep = "l") or all (keep = "none"), with a flat
\* modifier; a count of 1 may be left out.
WriteNotation(count, sides, keep, k, modifier, countWritten) ==
    (IF countWritten THEN ToDigits(count) ELSE <<>>)
    \o <<"d">> \o ToDigits(sides)
    \o (IF keep = "none" THEN <<>> ELSE <<"k", keep>> \o ToDigits(k))
    \o (IF modifier = 0 THEN <<>>
        ELSE IF modifier > 0 THEN <<"+">> \o ToDigits(modifier)
        ELSE <<"-">> \o ToDigits(0 - modifier))

DieSides == {4, 12}

FlatModifiers == {0 - 3, 0, 2}

KeepChoices ==
    {[keep |-> "none", k |-> 0]}
        \cup {[keep |-> keep, k |-> k] : keep \in {"h", "l"}, k \in {0, 2, MaxDice + 1}}

RollInput(count, sides, keep, k, modifier, notation) ==
    [valid |-> TRUE, count |-> count, sides |-> sides, keep |-> keep, k |-> k,
     modifier |-> modifier, notation |-> notation]

ValidRollInputs ==
    UNION {{RollInput(count, sides, c.keep, c.k, modifier,
                      WriteNotation(count, sides, c.keep, c.k, modifier, countWritten)) :
               sides \in DieSides, c \in KeepChoices, modifier \in FlatModifiers,
               countWritten \in {TRUE} \cup {w \in {FALSE} : count = 1}} :
           count \in 1 .. MaxDice}
        \cup {RollInput(2, 6, "h", 1, 1, <<" ", "2", "D", "6", "K", "H", "1", " ", "+", "1">>)}

\* Texts that are no notation, or one with a count or sides out of range.
InvalidRollInputs ==
    {[valid |-> FALSE, notation |-> notation] :
        notation \in {<<"0", "d", "4">>, <<"2", "d", "0">>, <<"1", "0", "1", "d", "4">>,
                      <<"2", "d", "1", "0", "1">>, <<"2", "d">>, <<"2", "d", "4", "k">>,
                      <<"2", "d", "4", "k", "h">>, <<"2", "d", "4", "+">>,
                      <<"2", "x", "4">>, <<"2", "d", "4", "+", "1", "d">>}}

\* The caller has the arguments of a dice roll at hand and the draws the roll will
\* be handed; the roll has not been made yet.
Pending(op, args) ==
    /\ combat = startCombat(<<Hero(MaxHp, 0)>>, <<Goblin>>, <<>>, <<>>, <<10, 10>>, "uuid")
    /\ pre = combat
    /\ last = [NoCall EXCEPT !.op = "pending", !.args = args, !.result = [op |-> op]]
    /\ started = combat
    /\ prevDowned = NoId
    /\ turnCalls = [only |-> TRUE, n |-> 0]
    /\ actors = NoActors

\* The caller makes the roll and keeps what it returned.
Rolled(op, r) ==
    Call([NoCall EXCEPT !.op = op, !.args = last.args, !.thrown = r.thrown, !.result = r],
         combat)

InitRoll ==
    \E input \in ValidRollInputs \cup InvalidRollInputs :
        \E draws \in [1 .. DrawsOfRoll(input.notation) -> RawDraws] :
            Pending("roll", [input |-> input, draws |-> draws])

Roll ==
    /\ last.op = "pending"
    /\ last.result.op = "roll"
    /\ \E r \in {roll(last.args.input.notation, last.args.draws)} : Rolled("roll", r)

\* The character of the dice tests, at a given level.
TestHero(level) ==
    [id |-> "char-123", level |-> level,
     abilityScores |-> [strength |-> 16, dexterity |-> 14, charisma |-> 8],
     proficiencies |-> [savingThrows |-> <<"strength">>,
                        skills |-> <<"athletics", "intimidation">>,
                        expertise |-> <<"athletics">>]]

Levels == {1, 5}

\* Random values that give the d20 results 1, 2, 10, 19, 20 and, past 20, 20 again.
D20RawDraws == {0, 1, 9, 18, 19, 39}

AdvantageStatuses == {"normal", "advantage", "disadvantage"}

\* Difficulty classes below every total, within the totals, and above every total.
DifficultyClasses == {0 - 10, 12, 25, 40}

ArmorClasses == {1, 13, 25}

AttackBonuses == {0 - 5, 0, 5, 20}

InitRollAbilityCheck ==
    \E level \in Levels, ability \in {"strength", "dexterity"},
       skill \in {NoSkill, "athletics", "stealth", "intimidation"},
       dc \in DifficultyClasses, advantageStatus \in AdvantageStatuses :
        \E draws \in [1 .. DrawsOfD20(advantageStatus) -> D20RawDraws] :
            Pending("rollAbilityCheck",
                    [character |-> TestHero(level), ability |-> ability, dc |-> dc,
                     skill |-> skill, advantageStatus |-> advantageStatus,
                     draws |-> draws])

RollAbilityCheck ==
    /\ last.op = "pending"
    /\ last.result.op = "rollAbilityCheck"
    /\ \E r \in {rollAbilityCheck(last.args.character, last.args.ability, last.args.dc,
                                  last.args.skill, last.args.advantageStatus,
                                  last.args.draws)} :
          Rolled("rollAbilityCheck", r)

InitRollSavingThrow ==
    \E level \in Levels, ability \in {"strength", "dexterity"},
       dc \in DifficultyClasses, advantageStatus \in AdvantageStatuses :
        \E draws \in [1 .. DrawsOfD20(advantageStatus) -> D20RawDraws] :
            Pending("rollSavingThrow",
                    [character |-> TestHero(level), ability |-> ability, dc |-> dc,
                     advantageStatus |-> advantageStatus, draws |-> draws])

RollSavingThrow ==
    /\ last.op = "pending"
    /\ last.result.op = "rollSavingThrow"
    /\ \E r \in {rollSavingThrow(last.args.character, last.args.ability, last.args.dc,
                                 last.args.advantageStatus, last.args.draws)} :
          Rolled("rollSavingThrow", r)

InitRollAttack ==
    \E targetAC \in ArmorClasses, attackBonus \in AttackBonuses,
       advantageStatus \in AdvantageStatuses :
        \E draws \in [1 .. DrawsOfD20(advantageStatus) -> D20RawDraws] :
            Pending("rollAttack",
                    [dc |-> targetAC, attackBonus |-> attackBonus,
                     advantageStatus |-> advantageStatus, draws |-> draws])

RollAttack ==
    /\ last.op = "pending"
    /\ last.result.op = "rollAttack"
    /\ \E r \in {rollAttack(last.args.dc, last.args.attackBonus,
                            last.args.advantageStatus, last.args.draws)} :
          Rolled("rollAttack", r)

\* A damage notation with its numbers: count dice of the given sides and a flat
\* modifier written in the notation.
DamageDice(count, sides, modifier) ==
    RollInput(count, sides, "none", 0, modifier,
              WriteNotation(count, sides, "none", 0, modifier, TRUE))

BaseDamageDice ==
    {DamageDice(count, 4, modifier) : count \in 1 .. 2, modifier \in {0, 2}}
        \cup {RollInput(2, 4, "h", 1, 0, <<"2", "d", "4", "k", "h", "1">>)}

AdditionalDamageChoices ==
    {<<>>, <<DamageDice(1, 4, 2)>>, <<DamageDice(1, 4, 0 - 3), DamageDice(1, 6, 0)>>}

\* The modifier argument of rollDamage.
DamageModifiers == {0 - 10, 0, 3}

\* Random values that give a 1 and a 4 on a d4 and on a d6.
DamageRawDraws == {0, 3}

\* The DamageSource values rollDamage is handed: the notations of the sources.
Sources(additional) == [i \in 1 .. Len(additional) |-> [dice |-> additional[i].notation]]

InitRollDamage ==
    \E base \in BaseDamageDice, modifier \in DamageModifiers, isCritical \in BOOLEAN,
       additional \in AdditionalDamageChoices :
        \E draws \in [1 .. DrawsOfDamage(base.notation, isCritical, Sources(additional))
                        -> DamageRawDraws] :
            Pending("rollDamage",
                    [base |-> base, modifier |-> modifier, isCritical |-> isCritical,
                     additional |-> additional, draws |-> draws])

RollDamage ==
    /\ last.op = "pending"
    /\ last.result.op = "rollDamage"
    /\ \E r \in {rollDamage(last.args.base.notation, last.args.modifier,
                            last.args.isCritical, Sources(last.args.additional),
                            last.args.draws)} :
          Rolled("rollDamage", r)

\* The successes and failures a character can have (deathSaves of the schema).
DeathSaveCounts == 0 .. 3

\* Random values that give every d20 result, and past 20, a 1 and a 20 again.
AllD20RawDraws == (0 .. 19) \cup {20, 39}

InitRollDeathSave ==
    \E currentSuccesses \in DeathSaveCounts, currentFailures \in DeathSaveCounts,
       draw \in AllD20RawDraws :
        Pending("rollDeathSave",
                [currentSuccesses |-> currentSuccesses,
                 currentFailures |-> currentFailures, draw |-> draw])

RollDeathSave ==
    /\ last.op = "pending"
    /\ last.result.op = "rollDeathSave"
    /\ \E r \in {rollDeathSave(last.args.currentSuccesses, last.args.currentFailures,
                               last.args.draw)} :
          Rolled("rollDeathSave", r)

InitDice ==
    \/ InitRoll
    \/ InitRollAbilityCheck
    \/ InitRollSavingThrow
    \/ InitRollAttack
    \/ InitRollDamage
    \/ InitRollDeathSave

NextDice ==
    \/ Roll
    \/ RollAbilityCheck
    \/ RollSavingThrow
    \/ RollAttack
    \/ RollDamage
    \/ RollDeathSave

SpecDice == InitDice /\ [][NextDice]_vars

\* The dice a roll threw before any were dropped.
Thrown(sides, draws) == [i \in 1 .. Len(draws) |-> rollDie(sides, draws[i])]

\* How often v occurs in s.
Occurrences(s, v) == Cardinality({i \in 1 .. Len(s) : s[i] = v})

\* kept is made of dice of all, and the dice of all that are not in kept are no
\* better than any die in kept: no higher when the highest are kept, no lower when
\* the lowest are.
KeptAreBest(kept, all, highest) ==
    /\ \A i \in 1 .. Len(kept) : Occurrences(kept, kept[i]) <= Occurrences(all, kept[i])
    /\ \A i \in 1 .. Len(all), j \in 1 .. Len(kept) :
          Occurrences(kept, all[i]) < Occurrences(all, all[i]) =>
              IF highest THEN all[i] <= kept[j] ELSE all[i] >= kept[j]

\* C28: for a valid notation of N dice with S sides, modifier M and an optional keep
\* of the k highest or lowest, roll returns N dice, or min(N, k) dice when a keep is
\* given, these being the highest (lowest) of the N dice thrown; each die is in
\* 1..S; the total is the sum of the returned dice plus M.
C28_Roll ==
    (last.op = "roll" /\ last.args.input.valid) =>
        LET input == last.args.input
            result == last.result
            all == Thrown(input.sides, last.args.draws)
        IN  /\ ~result.thrown
            /\ Len(all) = input.count
            /\ Len(result.rolls) = IF input.keep = "none" THEN input.count
                                   ELSE Min(input.count, input.k)
            /\ \A i \in 1 .. Len(result.rolls) : result.rolls[i] \in 1 .. input.sides
            /\ input.keep = "none" => result.rolls = all
            /\ input.keep # "none" => KeptAreBest(result.rolls, all, input.keep = "h")
            /\ result.modifier = input.modifier
            /\ result.total = SumOf(result.rolls) + input.modifier

\* Three d4 of which the two highest are kept: 4, 1 and 3 are thrown, 4 and 3 stay.
C28_Witness ==
    /\ last.op = "roll"
    /\ last.args.input.valid
    /\ last.args.input.notation = <<"3", "d", "4", "k", "h", "2", "-", "3">>
    /\ last.args.draws = <<3, 4, 2>>
    /\ last.result.rolls = <<4, 3>>
    /\ last.result.total = 4

\* Two dice of which the lowest three are to be kept: both stay.
C28_WitnessKeepAll ==
    /\ last.op = "roll"
    /\ last.args.input.valid
    /\ last.args.input.keep = "l"
    /\ last.args.input.count = 2
    /\ last.args.input.k = MaxDice + 1
    /\ Len(last.result.rolls) = 2

\* The d20 result a roll goes by: the one die, or the higher of two with advantage,
\* or the lower of two with disadvantage.
SelectedD20(advantageStatus, draws) ==
    LET die(i) == 1 + (draws[i] % 20)
    IN  CASE advantageStatus = "normal" -> die(1)
          [] advantageStatus = "advantage" -> IF die(1) >= die(2) THEN die(1) ELSE die(2)
          [] advantageStatus = "disadvantage" -> IF die(1) <= die(2) THEN die(1) ELSE die(2)

D20Ops == {"rollAbilityCheck", "rollSavingThrow", "rollAttack"}

\* Whether the roll succeeded (an ability check or a saving throw) or hit (an attack).
Succeeded == IF last.op = "rollAttack" THEN last.result.hits ELSE last.result.success

\* The modifiers the result says were added to the d20.
AddedToD20 ==
    IF last.op = "rollAttack" THEN last.result.attackBonus
    ELSE last.result.modifier + last.result.proficiencyBonus

\* C29: in rollAbilityCheck, rollSavingThrow and rollAttack the total is the selected
\* d20 result plus the modifiers; a selected d20 result of 20 succeeds (hits) and one
\* of 1 fails (misses) whatever the DC (AC) and the modifiers; for the results 2..19
\* the roll succeeds (hits) exactly if total >= DC (AC).
C29_NaturalTwentyAndOne ==
    last.op \in D20Ops =>
        LET selected == SelectedD20(last.args.advantageStatus, last.args.draws)
        IN  /\ last.result.roll = selected
            /\ last.result.total = selected + AddedToD20
            /\ selected = 20 => Succeeded
            /\ selected = 1 => ~Succeeded
            /\ selected \in 2 .. 19 => (Succeeded <=> last.result.total >= last.args.dc)

\* An attack with a bonus of 20 against AC 1 misses on a 1, the lower of two dice.
C29_Witness ==
    /\ last.op = "rollAttack"
    /\ last.args.advantageStatus = "disadvantage"
    /\ last.result.roll = 1
    /\ last.result.total >= last.args.dc
    /\ ~last.result.hits

\* An ability check against DC 40 succeeds on a 20, with a total below the DC.
C29_WitnessTwenty ==
    /\ last.op = "rollAbilityCheck"
    /\ last.result.roll = 20
    /\ last.result.total < last.args.dc
    /\ last.result.success

\* A saving throw with a proficient ability and a d20 result of 10 against DC 12.
C29_WitnessSave ==
    /\ last.op = "rollSavingThrow"
    /\ last.result.roll = 10
    /\ last.result.proficiencyBonus > 0
    /\ last.args.dc = 12
    /\ last.result.success

\* C30: rollDamage rolls count dice of the base notation, and of each additional
\* source, when isCritical is false and twice as many when it is true, each die in
\* 1..sides of its notation; totalDamage is max(0, baseDamage + the sum of the
\* additional sources' totals) and so never negative.
C30_DamageDice ==
    last.op = "rollDamage" =>
        LET args == last.args
            result == last.result
            times == IF args.isCritical THEN 2 ELSE 1
        IN  /\ ~result.thrown
            /\ Len(result.rolls) = times * args.base.count
            /\ \A i \in 1 .. Len(result.rolls) : result.rolls[i] \in 1 .. args.base.sides
            /\ Len(result.additionalRolls) = Len(args.additional)
            /\ \A n \in 1 .. Len(args.additional) :
                  /\ Len(result.additionalRolls[n]) = times * args.additional[n].count
                  /\ \A i \in 1 .. Len(result.additionalRolls[n]) :
                        result.additionalRolls[n][i] \in 1 .. args.additional[n].sides
            /\ Len(args.draws) = times * (args.base.count
                    + SumOf([n \in 1 .. Len(args.additional) |-> args.additional[n].count]))
            /\ result.totalDamage
                  = (IF result.baseDamage + result.additionalTotal >= 0
                     THEN result.baseDamage + result.additionalTotal ELSE 0)
            /\ result.totalDamage >= 0

\* A critical hit with 2d4, a modifier of -10 and two additional sources: four base
\* dice and two dice for each source, and a sum below zero that gives 0 damage.
C30_Witness ==
    /\ last.op = "rollDamage"
    /\ last.args.isCritical
    /\ last.args.base.count = 2
    /\ Len(last.result.rolls) = 4
    /\ Len(last.result.additionalRolls) = 2
    /\ Len(last.result.additionalRolls[2]) = 2
    /\ last.result.baseDamage + last.result.additionalTotal < 0
    /\ last.result.totalDamage = 0

\* No critical hit: one die for 1d4 and one for the additional 1d4+2.
C30_WitnessPlain ==
    /\ last.op = "rollDamage"
    /\ ~last.args.isCritical
    /\ last.args.base.count = 1
    /\ Len(last.result.rolls) = 1
    /\ Len(last.result.additionalRolls) = 1
    /\ last.result.totalDamage > 0

\* C31: for current successes and failures in 0..3 and every d20 result,
\* rollDeathSave returns: on 20, stable, not dead, 3 successes and the failures
\* unchanged; on 1, two failures more (3 at most); on 10..19, one success more (3 at
\* most), stable exactly if the successes are then 3; on 2..9, one failure more (3
\* at most); dead exactly if a failure was added and the failures reached 3 or more;
\* the new successes and failures are in 0..3.
C31_DeathSave ==
    last.op = "rollDeathSave" =>
        LET successes == last.args.currentSuccesses
            failures == last.args.currentFailures
            d20 == 1 + (last.args.draw % 20)
            added == IF d20 = 1 THEN 2 ELSE IF d20 \in 2 .. 9 THEN 1 ELSE 0
            r == last.result
        IN  /\ r.roll = d20
            /\ d20 = 20 =>
                  r.stable /\ ~r.dead /\ r.newSuccesses = 3 /\ r.newFailures = failures
            /\ d20 \in 1 .. 9 =>
                  /\ r.newFailures = (IF failures + added <= 3 THEN failures + added ELSE 3)
                  /\ r.newSuccesses = successes
                  /\ ~r.stable
            /\ d20 \in 10 .. 19 =>
                  /\ r.newSuccesses = (IF successes + 1 <= 3 THEN successes + 1 ELSE 3)
                  /\ r.newFailures = failures
                  /\ r.stable <=> r.newSuccesses = 3
            /\ r.dead <=> (added > 0 /\ failures + added >= 3)
            /\ r.newSuccesses \in 0 .. 3
            /\ r.newFailures \in 0 .. 3

\* One failure and a d20 result of 1: three failures, dead.
C31_Witness ==
    /\ last.op = "rollDeathSave"
    /\ last.args.currentFailures = 1
    /\ last.result.roll = 1
    /\ last.result.newFailures = 3
    /\ last.result.dead

\* Three failures already and a d20 result of 10 or more: no failure is added, and
\* the result is not dead though its failures are 3.
C31_WitnessNoFailureAdded ==
    /\ last.op = "rollDeathSave"
    /\ last.args.currentFailures = 3
    /\ last.result.roll >= 10
    /\ last.result.newFailures = 3
    /\ ~last.result.dead

\* ---------------------------------------------------------------------------
\* Several actors on one stored Combat.  Every operation takes a Combat value
\* and returns a new one (applyDamage, lines 397-411: the returned Combat is
\* the argument with the initiative order replaced); the engine keeps nothing
\* itself.  An actor takes the stored value, applies one applyDamage to what it
\* took, and writes the returned value back.
\* ---------------------------------------------------------------------------
ActorNames == {"a1", "a2"}

OtherActor(a) == CHOOSE o \in ActorNames : o # a

\* An actor that has not taken anything holds the stored value of the start.
IdleActor(c) == [pc |-> "idle", taken |-> c, result |-> c, targetId |-> NoId, amount |-> 0]

Step(op, a) == [NoCall EXCEPT !.op = op, !.args = [actor |-> a]]

Take(a) ==
    /\ actors[a].pc = "idle"
    /\ actors' = [actors EXCEPT ![a].pc = "taken", ![a].taken = combat]
    /\ last' = Step("take", a)
    /\ UNCHANGED <<combat, pre, started, prevDowned, turnCalls>>

ApplyTaken(a) ==
    /\ actors[a].pc = "taken"
    /\ \E targetId \in Ids(actors[a].taken) : \E amount \in 1 .. MaxHp :
        \E r \in {applyDamage(actors[a].taken, targetId, amount)} :
            /\ ~r.thrown
            /\ actors' = [actors EXCEPT ![a].pc = "applied", ![a].result = r.combat,
                                        ![a].targetId = targetId, ![a].amount = amount]
    /\ last' = Step("apply", a)
    /\ UNCHANGED <<combat, pre, started, prevDowned, turnCalls>>

WriteBack(a) ==
    /\ actors[a].pc = "applied"
    /\ pre' = combat
    /\ combat' = actors[a].result
    /\ actors' = [actors EXCEPT ![a].pc = "written"]
    /\ last' = Step("writeBack", a)
    /\ UNCHANGED <<started, prevDowned, turnCalls>>

InitStore ==
    \E c \in {startCombat(<<Hero(MaxHp, 0)>>, <<Goblin>>, <<>>, <<>>, rolls, "uuid")
                : rolls \in RollChoices(2)} :
        /\ combat = c
        /\ pre = c
        /\ started = c
        /\ last = NoCall
        /\ prevDowned = NoId
        /\ turnCalls = [only |-> TRUE, n |-> 0]
        /\ actors = [a \in ActorNames |-> IdleActor(c)]

NextStore ==
    \/ \E a \in ActorNames : Take(a)
    \/ \E a \in ActorNames : ApplyTaken(a)
    \/ \E a \in ActorNames : WriteBack(a)

SpecStore == InitStore /\ [][NextStore]_vars

\* The damage the actors of a set have dealt to one combatant.
DamageBy(who, id) ==
    LET Dealt(a) == IF a \in who /\ actors[a].targetId = id THEN actors[a].amount ELSE 0
    IN  Dealt("a1") + Dealt("a2")

HpAfter(who, id) == Max(0, getCombatant(started, id).currentHp - DamageBy(who, id))

BothWritten == \A a \in ActorNames : actors[a].pc = "written"

LastWriter == last.args.actor

\* The last writer took the value of the start, as the other actor did.
Unserialized == actors[LastWriter].taken = started

\* The last writer took what the other actor had written back.
Serialized == actors[LastWriter].taken = actors[OtherActor(LastWriter)].result

DifferentTargets == actors["a1"].targetId # actors["a2"].targetId

\* C32: when two actors have each taken the stored Combat, applied one
\* applyDamage and written the result back, the stored value is the one the
\* last writer returned.  If both took the same stored value, the stored value
\* shows the last writer's damage only: the other actor's update is lost, and
\* with different targets the other actor's target is as it was at the start.
\* If the last writer took what the other had written back, the stored value
\* shows the damage of both.
C32_LostUpdate ==
    BothWritten =>
        /\ combat = actors[LastWriter].result
        /\ Unserialized \/ Serialized
        /\ Unserialized =>
            /\ \A id \in Ids(started) :
                   getCombatant(combat, id).currentHp = HpAfter({LastWriter}, id)
            /\ DifferentTargets =>
                   getCombatant(combat, actors[OtherActor(LastWriter)].targetId)
                     = getCombatant(started, actors[OtherActor(LastWriter)].targetId)
        /\ Serialized =>
            \A id \in Ids(started) :
                getCombatant(combat, id).currentHp = HpAfter(ActorNames, id)

\* Both actors took the same value and damaged different targets: one update is lost.
C32_Witness ==
    /\ BothWritten
    /\ Unserialized
    /\ DifferentTargets
    /\ getCombatant(combat, actors[OtherActor(LastWriter)].targetId).currentHp = MaxHp
    /\ getCombatant(pre, actors[OtherActor(LastWriter)].targetId).currentHp < MaxHp

\* Serialized access with different targets: both combatants are damaged.
C32_WitnessSerialized ==
    /\ BothWritten
    /\ Serialized
    /\ DifferentTargets
    /\ \A id \in Ids(started) : getCombatant(combat, id).currentHp < MaxHp

\* ---------------------------------------------------------------------------
\* A combat that has ended (SpecFrame: every operation on hero and goblin)
\* ---------------------------------------------------------------------------
\* One step taken on a Combat that is not active.
AfterTheEnd ==
    ~combat.isActive =>
        /\ ~combat'.isActive
        /\ last'.op = "nextTurn" => combat' = combat

\* C33: isActive = false is absorbing.  Once endCombat or nextTurn has set
\* isActive to false no operation sets it back to true, a later nextTurn
\* returns the Combat unchanged (same round, same turn index, same
\* combatants), and getCurrentCombatant of a Combat that is not active is null.
C33_InactiveAbsorbing ==
    [][ /\ AfterTheEnd
        /\ last'.op \in {"endCombat"} => ~combat'.isActive
        /\ ~combat'.isActive => getCurrentCombatant(combat') = "null" ]_vars

\* nextTurn is called on a Combat that endCombat ended while combatants were active.
C33_Witness ==
    /\ last.op = "nextTurn"
    /\ ~pre.isActive
    /\ \E i \in Indices(pre.initiativeOrder) : At(pre.initiativeOrder, i).status = "active"
    /\ combat = pre

\* nextTurn itself ended the combat, nobody being active.
C33_WitnessEndedByNextTurn ==
    /\ last.op = "nextTurn"
    /\ pre.isActive
    /\ ~combat.isActive

\* Another operation changes the ended Combat and leaves it ended.
C33_WitnessChangedAfterEnd ==
    /\ last.op \in {"applyDamage", "flee", "addCondition", "useAction"}
    /\ ~pre.isActive
    /\ combat # pre
    /\ ~combat.isActive

\* ---------------------------------------------------------------------------
\* The status fled (SpecFrame)
\* ---------------------------------------------------------------------------
StatusKeepers ==
    {"applyDamage", "applyHealing", "addCondition", "removeCondition", "addTempHp",
     "nextTurn", "processEndOfRound"}

\* The combatants that are fled before a step of one of the operations are fled after it.
FledStaysFled(ops) ==
    last'.op \in ops =>
        \A i \in Indices(combat.initiativeOrder) :
            At(combat.initiativeOrder, i).status = "fled"
              => At(combat'.initiativeOrder, i).status = "fled"

\* C34: the status fled is permanent.  No applyDamage, applyHealing,
\* addCondition, removeCondition, addTempHp, nextTurn or processEndOfRound
\* changes the status of a combatant that is fled.
C34_FledPermanent == [][FledStaysFled(StatusKeepers)]_vars

\* C34, what the code keeps: addCondition, removeCondition, addTempHp, nextTurn
\* and processEndOfRound leave a fled combatant fled.
C34_FledKeptByOthers == [][FledStaysFled(StatusKeepers \ {"applyDamage", "applyHealing"})]_vars

\* C34, what the code keeps: a nextTurn never makes current a combatant that
\* is fled when it is called.
C34_FledSkippedByNextTurn ==
    [][ (last'.op = "nextTurn" /\ combat.isActive /\ combat'.isActive)
          => At(combat.initiativeOrder, combat'.currentTurnIndex).status # "fled" ]_vars

\* ---------------------------------------------------------------------------
\* The order of the turns (SpecTurn)
\* ---------------------------------------------------------------------------
ActiveIndices(c) ==
    {i \in Indices(c.initiativeOrder) : At(c.initiativeOrder, i).status = "active"}

\* Nobody is passed over for surprise: no surprised combatant, or round 2 and later.
NoSurprise(c) == c.surprisedCombatantIds = <<>> \/ c.round >= 2

\* How far the nearest active combatant is after the current index, going round.
StepsToActive(c) ==
    CHOOSE k \in 1 .. Len(c.initiativeOrder) :
        /\ ((c.currentTurnIndex + k) % Len(c.initiativeOrder)) \in ActiveIndices(c)
        /\ \A j \in 1 .. (k - 1) :
               ((c.currentTurnIndex + j) % Len(c.initiativeOrder)) \notin ActiveIndices(c)

NearestActiveAfter(c) == (c.currentTurnIndex + StepsToActive(c)) % Len(c.initiativeOrder)

\* The Combat after k nextTurn calls in a row.
RECURSIVE TurnsTaken(_, _)
TurnsTaken(c, k) == IF k = 0 THEN c ELSE nextTurn(TurnsTaken(c, k - 1))

TurnsCanBeTaken(c) == c.isActive /\ ActiveIndices(c) # {} /\ NoSurprise(c)

\* C35: while no status changes and nobody is surprised (or round >= 2), a
\* nextTurn makes current the nearest active combatant strictly after the
\* current index in cyclic order and changes no status; and the next A
\* nextTurn calls (A the number of active combatants, at most N) make every
\* active combatant current exactly once, the round going up by at most one
\* in between, and exactly when the index does not grow.
C35_NearestActive ==
    /\ (last.op = "nextTurn" /\ TurnsCanBeTaken(pre)) =>
           /\ combat.currentTurnIndex = NearestActiveAfter(pre)
           /\ ActiveIndices(combat) = ActiveIndices(pre)
           /\ combat.isActive
    /\ TurnsCanBeTaken(combat) =>
           LET A == Cardinality(ActiveIndices(combat))
               turn == [k \in 0 .. A |-> TurnsTaken(combat, k)]
           IN  /\ A <= Len(combat.initiativeOrder)
               /\ {turn[k].currentTurnIndex : k \in 1 .. A} = ActiveIndices(combat)
               /\ \A k \in 1 .. A :
                      turn[k].round =
                          IF turn[k].currentTurnIndex <= turn[k - 1].currentTurnIndex
                          THEN turn[k - 1].round + 1
                          ELSE turn[k - 1].round
               /\ turn[A].round <= combat.round + 1

\* A nextTurn passes over a combatant that is not active.
C35_Witness ==
    /\ last.op = "nextTurn"
    /\ TurnsCanBeTaken(pre)
    /\ Len(pre.initiativeOrder) = 3
    /\ Cardinality(ActiveIndices(pre)) = 2
    /\ StepsToActive(pre) = 2
    /\ combat.currentTurnIndex = NearestActiveAfter(pre)

\* A nextTurn in round 2 makes a combatant current that is listed as surprised.
C35_WitnessSurprisedLater ==
    /\ last.op = "nextTurn"
    /\ pre.isActive
    /\ pre.round >= 2
    /\ Includes(pre.surprisedCombatantIds, getCurrentCombatant(combat).id)

\* ---------------------------------------------------------------------------
\* SpecWrap: every operation on hero and goblin, with surprise and conditions
\* counted in rounds, to look at what a nextTurn does at the end of a round
\* ---------------------------------------------------------------------------
InitWrap ==
    \E rolls \in RollChoices(2), surprisedIds \in SurpriseChoices(1) :
        Start(startCombat(<<Hero(MaxHp, 0)>>, <<Goblin>>, <<>>, surprisedIds, rolls, "uuid"))

NextWrap ==
    \/ NextTurn /\ Within
    \/ ProcessEndOfRound /\ Within
    \/ ApplyDamage({MaxHp}) /\ Within
    \/ ApplyHealing({MaxHp}) /\ Within
    \/ AddCondition({Condition("poisoned", "spell", Rounds(k)) : k \in {1, MaxRounds}}) /\ Within
    \/ RemoveCondition({"poisoned"}) /\ Within
    \/ UseAction /\ Within
    \/ UseBonusAction /\ Within
    \/ UseReaction /\ Within
    \/ UseMovement({30}) /\ Within
    \/ Flee /\ Within
    \/ AddTempHp({MaxHp}) /\ Within
    \/ EndCombat({"victory"}) /\ Within

SpecWrap == InitWrap /\ [][NextWrap]_vars

ConditionsAt(c, i) == At(c.initiativeOrder, i).conditions

\* C36: a nextTurn call runs the end of a round at most once: the round it
\* returns is the input round or the input round + 1; no operation lowers the
\* round; and nextTurn counts the rounds-typed conditions down (dropping those
\* that run out) exactly when the round goes up, leaving them as they are
\* otherwise.
C36_RoundOncePerTurn ==
    /\ combat.round >= pre.round
    /\ last.op = "nextTurn" =>
          /\ combat.round \in {pre.round, pre.round + 1}
          /\ \A i \in Indices(pre.initiativeOrder) :
                ConditionsAt(combat, i) =
                    IF combat.round = pre.round + 1
                    THEN ExpectedAfterRound(ConditionsAt(pre, i))
                    ELSE ConditionsAt(pre, i)

\* A nextTurn of round 1 passes over a surprised combatant, ends the round and
\* counts a condition of MaxRounds rounds down by one.
C36_Witness ==
    /\ last.op = "nextTurn"
    /\ pre.round = 1
    /\ combat.round = 2
    /\ pre.surprisedCombatantIds # <<>>
    /\ \E i \in Indices(pre.initiativeOrder) :
          /\ i > pre.currentTurnIndex
          /\ Includes(pre.surprisedCombatantIds, At(pre.initiativeOrder, i).id)
          /\ At(pre.initiativeOrder, i).status = "active"
    /\ \E i \in Indices(pre.initiativeOrder) :
          /\ ConditionsAt(pre, i) = <<Condition("poisoned", "spell", Rounds(MaxRounds))>>
          /\ ConditionsAt(combat, i) = <<Condition("poisoned", "spell", Rounds(MaxRounds - 1))>>

\* A nextTurn within a round leaves a rounds-typed condition as it is.
C36_WitnessWithinRound ==
    /\ last.op = "nextTurn"
    /\ combat.round = pre.round
    /\ combat.currentTurnIndex # pre.currentTurnIndex
    /\ \E i \in Indices(pre.initiativeOrder) :
          /\ ConditionsAt(pre, i) = <<Condition("poisoned", "spell", Rounds(1))>>
          /\ ConditionsAt(combat, i) = ConditionsAt(pre, i)

\* What nextTurn leaves alone in a combatant.
SameBody(x, y) ==
    /\ x.currentHp = y.currentHp
    /\ x.tempHp = y.tempHp
    /\ x.status = y.status
    /\ x.id = y.id
    /\ x.speed = y.speed

ResourcesAt(c, i) == At(c.initiativeOrder, i).turnResources

\* The surprised combatants the nextTurn that led from pre to combat landed on
\* and passed over: in round 1, the active surprised ones after the current
\* index, up to the index it stopped at if the round did not end.
PassedOverSurprised ==
    {i \in Indices(pre.initiativeOrder) :
        /\ pre.isActive
        /\ pre.round = 1
        /\ i > pre.currentTurnIndex
        /\ combat.round = 1 => i < combat.currentTurnIndex
        /\ At(pre.initiativeOrder, i).status = "active"
        /\ Includes(pre.surprisedCombatantIds, At(pre.initiativeOrder, i).id)}

\* C37 as stated: nextTurn changes no combatant's currentHp, tempHp, status, id
\* or speed, and changes turnResources of nobody but the combatant that is
\* current in the returned state.
C37_OnlyCurrentReset ==
    last.op = "nextTurn" =>
        \A i \in Indices(pre.initiativeOrder) :
            /\ SameBody(At(combat.initiativeOrder, i), At(pre.initiativeOrder, i))
            /\ i # combat.currentTurnIndex => ResourcesAt(combat, i) = ResourcesAt(pre, i)

\* C37: nextTurn changes no combatant's currentHp, tempHp, status, id or speed.
\* It gives the full turn resources to the combatant that is current in the
\* returned state and to every surprised combatant it landed on and passed
\* over in round 1; the turnResources of every other combatant, those passed
\* over as defeated or fled included, are as they were.
C37_ResetOnLanding ==
    last.op = "nextTurn" =>
        \A i \in Indices(pre.initiativeOrder) :
            /\ SameBody(At(combat.initiativeOrder, i), At(pre.initiativeOrder, i))
            /\ ResourcesAt(combat, i) =
                  IF /\ pre.isActive
                     /\ ActiveIndices(pre) # {}
                     /\ i = combat.currentTurnIndex \/ i \in PassedOverSurprised
                  THEN createDefaultTurnResources(At(pre.initiativeOrder, i).speed)
                  ELSE ResourcesAt(pre, i)

\* A surprised combatant that had spent a turn resource is passed over in round 1
\* and has its full resources in the returned state, in which another is current.
C37_Witness ==
    /\ last.op = "nextTurn"
    /\ \E i \in PassedOverSurprised :
          /\ i # combat.currentTurnIndex
          /\ ResourcesAt(pre, i) # ResourcesAt(combat, i)
          /\ ResourcesAt(combat, i) = createDefaultTurnResources(At(pre.initiativeOrder, i).speed)

\* A combatant that fled after spending a turn resource is passed over and keeps
\* its resources as they were.
C37_WitnessFledKeeps ==
    /\ last.op = "nextTurn"
    /\ pre.isActive
    /\ \E i \in Indices(pre.initiativeOrder) :
          /\ At(pre.initiativeOrder, i).status = "fled"
          /\ i = (pre.currentTurnIndex + 1) % Len(pre.initiativeOrder)
          /\ i # combat.currentTurnIndex
          /\ ResourcesAt(pre, i) # createDefaultTurnResources(At(pre.initiativeOrder, i).speed)
          /\ ResourcesAt(combat, i) = ResourcesAt(pre, i)

\* ---------------------------------------------------------------------------
\* SpecDeathSaves: a character at 0 HP rolls death saves, each roll being handed
\* the successes and failures the roll before returned
\* ---------------------------------------------------------------------------
\* No more rolls than this are looked at.
MaxDeathSaves == 6

DeathSaveDraws == 0 .. 19

InitDeathSaves ==
    Pending("rollDeathSave",
            [currentSuccesses |-> 0, currentFailures |-> 0, draw |-> 0, rolls |-> 0])

\* The successes and failures to hand to the next roll.
Tally ==
    IF last.op = "pending"
    THEN [successes |-> last.args.currentSuccesses, failures |-> last.args.currentFailures]
    ELSE [successes |-> last.result.newSuccesses, failures |-> last.result.newFailures]

Settled == last.op = "rollDeathSave" /\ (last.result.stable \/ last.result.dead)

RollDeathSaveAgain ==
    /\ ~Settled
    /\ last.args.rolls < MaxDeathSaves
    /\ \E draw \in DeathSaveDraws :
        \E r \in {rollDeathSave(Tally.successes, Tally.failures, draw)} :
            /\ last' = [NoCall EXCEPT !.op = "rollDeathSave",
                                      !.args = [currentSuccesses |-> Tally.successes,
                                                currentFailures |-> Tally.failures,
                                                draw |-> draw,
                                                rolls |-> last.args.rolls + 1],
                                      !.result = r]
            /\ UNCHANGED <<combat, pre, started, prevDowned, turnCalls, actors>>

SpecDeathSaves == InitDeathSaves /\ [][RollDeathSaveAgain]_vars

\* C38: from 0 successes and 0 failures, each rollDeathSave being handed the
\* newSuccesses and newFailures of the one before, whatever the die shows the
\* rolls end with stable or dead after 5 rolls at most, and no roll returns
\* stable and dead together.
C38_DeathSavesEnd ==
    last.op = "rollDeathSave" =>
        /\ last.args.rolls <= 5
        /\ last.args.rolls = 5 => Settled
        /\ ~(last.result.stable /\ last.result.dead)

\* Two successes and two failures in four rolls, and the fifth roll is the third failure.
C38_Witness ==
    /\ last.op = "rollDeathSave"
    /\ last.args.rolls = 5
    /\ last.args.currentSuccesses = 2
    /\ last.args.currentFailures = 2
    /\ last.result.dead
    /\ ~last.result.stable

\* A 20 on the first roll: stable at once.
C38_WitnessFirstRoll ==
    /\ last.op = "rollDeathSave"
    /\ last.args.rolls = 1
    /\ last.result.roll = 20
    /\ last.result.stable

\* ---------------------------------------------------------------------------
\* The flat modifier written in a damage notation (SpecDice)
\* ---------------------------------------------------------------------------
\* What the additional sources are to add: the dice of each and the flat modifier
\* of its notation, once.
AdditionalWithModifiers ==
    SumOf([n \in 1 .. Len(last.args.additional) |->
              SumOf(last.result.additionalRolls[n]) + last.args.additional[n].modifier])

\* C39: rollDamage adds the flat modifier written in a notation once, for the
\* base notation as for each additional source, also on a critical hit:
\* baseDamage is the sum of the base dice + the base notation's modifier + the
\* modifier argument, and each additional source adds its dice + its
\* notation's modifier.
C39_NotationModifierOnce ==
    last.op = "rollDamage" =>
        /\ last.result.baseDamage
              = SumOf(last.result.rolls) + last.args.base.modifier + last.args.modifier
        /\ last.result.additionalTotal = AdditionalWithModifiers

\* C39, what the code returns: the base notation's own modifier is left out of
\* baseDamage, while each additional source's is added once.
C39_BaseModifierLeftOut ==
    last.op = "rollDamage" =>
        /\ last.result.baseDamage = SumOf(last.result.rolls) + last.args.modifier
        /\ last.result.additionalTotal = AdditionalWithModifiers

\* 1d4+2 as the base notation on a critical hit with an additional 1d4+2: the base
\* damage is the two dice and the argument, the additional total has its 2 once.
C39_WitnessLeftOut ==
    /\ last.op = "rollDamage"
    /\ last.args.isCritical
    /\ last.args.base.modifier = 2
    /\ last.args.modifier = 3
    /\ Len(last.result.rolls) = 2
    /\ last.result.baseDamage = SumOf(last.result.rolls) + 3
    /\ Len(last.args.additional) = 1
    /\ last.result.additionalTotal = SumOf(last.result.additionalRolls[1]) + 2
====
